---- MODULE Spec2Model ----
(***************************************************************************)
(* Model of mcp_agent/tools/plogic_bo.py: the cached, timeout-bounded      *)
(* evaluation plogic_cascade (physics_cache wrapper + _LRUTTL + the        *)
(* worker pool _EXECUTOR), the sweep plogic_sweep_parallel and the         *)
(* optimization driver plogic_bo_run with its async/sync bridge            *)
(* _make_sync_objective, and the tools plogic_characterize,                *)
(* plogic_truth_table and plogic_health that share the pool.               *)
(*                                                                         *)
(* An action is what one coroutine does between two returns to the event   *)
(* loop, or what a worker thread does when it takes or ends a work item.   *)
(*                                                                         *)
(* Time is the wall clock time.time() in whole seconds.  Float values      *)
(* (metrics, weights) are drawn from small sets of integers; the float     *)
(* +infinity used for failed objectives is the value FInf.                 *)
(***************************************************************************)
EXTENDS Integers, Sequences, FiniteSets, TLC

(***************************************************************************)
(* Program constants.                                                      *)
(***************************************************************************)
CASCADE_TIMEOUT == 60
OBJ_TIMEOUT == 60
CACHE_TTL == 1800
CACHE_MAX_ITEMS == 1024
TRACE_CAP == 500
TRACE_KEEP == 400
PAYLOAD_TRACE == 200
TRUTH_TIMEOUT == 45
CHAR_TIMEOUT == 30
HEALTH_TIMEOUT == 5

(***************************************************************************)
(* Bounds of the model.                                                    *)
(***************************************************************************)
\* distinct parameter vectors (values of the cache-relevant keywords)
NPoints == 2
\* slots for plogic_cascade calls issued directly or by a sweep
NCalls == 3
\* largest worker pool (_MAX_WORKERS) tried
MaxWorkers == 2
\* capacity of the in-process cache tried (_LRUTTL(max_items))
MaxItems == 1
\* number of clock advances (Tick) in one behaviour
MaxTicks == 4
\* largest SweepRequest tried
MaxSweep == 2
\* concurrent plogic_bo_run calls
NRuns == 2
\* largest n_calls tried in the short runs
MaxNCalls == 3
\* largest fallback batch size tried
MaxBatch == 2
\* n_calls of the long run
RingCalls == 502
\* the long run draws its first RingFree points freely
RingFree == 2
\* the evaluation count at which the clock may pass the cache TTL in the long run
RingTickAt == 4
\* longest extra flag tried character by character
MaxFlagLen == 5
\* longest `extra` list tried
MaxExtra == 3
\* get and put operations made on the cache on its own
MaxOps == 4

Points == 1..NPoints
CallIds == 1..NCalls
NoPoint == 0

(***************************************************************************)
(* Floats with +infinity.                                                  *)
(***************************************************************************)
FInf == [inf |-> TRUE, v |-> 0]
Fin(x) == [inf |-> FALSE, v |-> x]
\* Python's a < b on floats (no NaN arises: see Objective)
FLess(a, b) == (~a.inf) /\ (b.inf \/ a.v < b.v)
FLeq(a, b) == b.inf \/ ((~a.inf) /\ a.v <= b.v)

(***************************************************************************)
(* The simulator (plogic.cli) as the Process Runner sees it: for each      *)
(* parameter vector an exit code, what its stdout and stderr carry and the *)
(* time it runs; "hang" never exits, "raise" is a run subprocess.run could *)
(* not start (it raises FileNotFoundError).  csv says whether the file a   *)
(* truth-table run was told to write (--out) is there to be read after the *)
(* run.                                                                    *)
(*                                                                         *)
(* stdout is described by its shape so: its syntax ("object": a JSON       *)
(* object, whose numeric members are out; "value": JSON of another type;   *)
(* "text": not JSON), whether the object has a NaN or Infinity member      *)
(* (which json.loads accepts), and what the margin pattern of line 273     *)
(* would capture in the text: "none" (no match), "num" (a number, taken to *)
(* be 1, as in "margin: 1") or "bad" (characters of [0-9.] that are no     *)
(* number, as in "margin: ."); ber says the same of the second group of    *)
(* the ber pattern of line 274: "none", "num" (taken to be 0, as in        *)
(* "ber: 0") or "bad" (as in "ber: .").                                    *)
(***************************************************************************)
MetricNames == {"logic_margin", "ber_estimate", "power_mw", "contrast_db"}
NoMetrics == [x \in {} |-> 0]
JsonObject == [syntax |-> "object", nan |-> FALSE, cap |-> "none", ber |-> "none"]
SimOutcomes ==
    { [kind |-> "ok", out |-> [ber_estimate |-> 0, logic_margin |-> 5], dur |-> 30, stderr |-> "", so |-> JsonObject, csv |-> TRUE],
      [kind |-> "ok", out |-> [logic_margin |-> 3, power_mw |-> 3, foo |-> 1], dur |-> 30,
       stderr |-> "", so |-> JsonObject, csv |-> TRUE],
      [kind |-> "fail", out |-> NoMetrics, dur |-> 30, stderr |-> "boom", so |-> JsonObject, csv |-> TRUE],
      [kind |-> "hang", out |-> NoMetrics, dur |-> 0, stderr |-> "", so |-> JsonObject, csv |-> TRUE] }
NoOutcome == [kind |-> "none", out |-> NoMetrics, dur |-> 0, stderr |-> "", so |-> JsonObject, csv |-> TRUE]

(***************************************************************************)
(* Keyword arguments of a plogic_cascade call: pt stands for the values of *)
(* the keywords the cache key is built from, extraKw says whether the call *)
(* also carries a keyword plogic_cascade's signature does not have (an     *)
(* unknown config key, or objective_margin_weight, which _objective_eval   *)
(* passes along with the rest of `fixed`), form how the call passes its    *)
(* parameters: "kw" every parameter by keyword in signature order, "kwrev" *)
(* by keyword in the opposite order, "omit" by keyword except those that   *)
(* have their default value, which are left out, "pos" positionally.       *)
(* extra is the list passed as the keyword `extra`, each entry a sequence  *)
(* of characters; <<>> stands for a call that does not pass it.            *)
(***************************************************************************)
Forms == {"kw", "kwrev", "omit", "pos"}
Kwargs == [pt : Points, extraKw : BOOLEAN, form : {"kw"}, extra : {<<>>}]
\* the parameter vector of the defaults except that n2 is None
NullN2 == NPoints + 1
FormKwargs == [pt : Points \cup {NullN2}, extraKw : {FALSE}, form : Forms, extra : {<<>>}]
\* the call that passes the parameter values of p by keyword, and nothing else
PlainCall(p) == [pt |-> p, extraKw |-> FALSE, form |-> "kw", extra |-> <<>>]

(***************************************************************************)
(* The Python call a Kwargs record stands for.  Values are written as      *)
(* their JSON text.  The model keeps three of plogic_cascade's eight       *)
(* parameters, in signature order; point 1 is the vector of defaults, the  *)
(* other points of Points differ in beta, NullN2 differs in n2 (None: the  *)
(* simulator is run without --n2).                                         *)
(***************************************************************************)
JsonNull == "null"
ParamNames == <<"threshold", "beta", "n2">>
ParamDefault == [threshold |-> "\"soft\"", beta |-> "30.0", n2 |-> "1e-17"]
BetaText == <<"30.0", "31.0", "32.0", "33.0">>
PointParams(p) ==
    IF p = NullN2 THEN [ParamDefault EXCEPT !.n2 = JsonNull]
    ELSE [ParamDefault EXCEPT !.beta = BetaText[p]]

RECURSIVE KwPairs(_, _)
\* the keyword arguments name=value for the names in ns, in that order
KwPairs(ns, v) ==
    IF ns = <<>> THEN <<>> ELSE <<<<Head(ns), v[Head(ns)]>>>> \o KwPairs(Tail(ns), v)

PyCall(kw) ==
    LET v == PointParams(kw.pt)
        base == CASE kw.form = "kw" -> [args |-> <<>>, kwargs |-> KwPairs(ParamNames, v)]
                  [] kw.form = "kwrev" ->
                       [args |-> <<>>,
                        kwargs |-> KwPairs([i \in DOMAIN ParamNames |->
                                              ParamNames[Len(ParamNames) + 1 - i]], v)]
                  [] kw.form = "omit" ->
                       [args |-> <<>>,
                        kwargs |-> KwPairs(SelectSeq(ParamNames,
                                              LAMBDA n : v[n] # ParamDefault[n]), v)]
                  [] OTHER -> [args |-> [i \in 1..Len(ParamNames) |-> v[ParamNames[i]]],
                               kwargs |-> <<>>]
        more == (IF kw.extra # <<>> THEN <<<<"extra", kw.extra>>>> ELSE <<>>)
                \o (IF kw.extraKw THEN <<<<"objective_margin_weight", "0.1">>>> ELSE <<>>)
    IN [base EXCEPT !.kwargs = @ \o more]

KwNames(call) == {call.kwargs[i][1] : i \in DOMAIN call.kwargs}
\* kwargs.get(n): None when the keyword was not passed
KwGet(call, n) ==
    IF n \in KwNames(call)
    THEN call.kwargs[CHOOSE i \in DOMAIN call.kwargs : call.kwargs[i][1] = n][2]
    ELSE JsonNull
\* the values plogic_cascade's parameters are bound to
BoundParams(call) ==
    [n \in {ParamNames[i] : i \in DOMAIN ParamNames} |->
        LET i == CHOOSE j \in DOMAIN ParamNames : ParamNames[j] = n IN
        IF i <= Len(call.args) THEN call.args[i]
        ELSE IF n \in KwNames(call) THEN KwGet(call, n) ELSE ParamDefault[n]]

(***************************************************************************)
(* Results.  An EvaluationResult is kind "ok"; a failure is kind "error"   *)
(* with the exception's type and message.  raw says that the result's raw  *)
(* output is the wrapper {"raw": <stdout>}; extra is params["extra"].       *)
(***************************************************************************)
OkResult(id, p, m, d) ==
    [kind |-> "ok", run_id |-> id, pt |-> p, metrics |-> m, dur |-> d,
     etype |-> "", msg |-> "", raw |-> FALSE, extra |-> <<>>]
ErrResult(p, etype, msg) ==
    [kind |-> "error", run_id |-> 0, pt |-> p, metrics |-> NoMetrics, dur |-> 0,
     etype |-> etype, msg |-> msg, raw |-> FALSE, extra |-> <<>>]
NoResult ==
    [kind |-> "none", run_id |-> 0, pt |-> NoPoint, metrics |-> NoMetrics, dur |-> 0,
     etype |-> "", msg |-> "", raw |-> FALSE, extra |-> <<>>]

\* lines 268-271: the metrics map built from the parsed stdout keeps the
\* members of four names
CascadeMetrics(out) == [k \in (DOMAIN out) \cap MetricNames |-> out[k]]

\* _parse_json_or_raw: json.loads, or {"raw": s} when that raises
ParseJsonOrRaw(o) ==
    CASE o.so.syntax = "object" -> [dict |-> TRUE, raw |-> FALSE, members |-> o.out]
      [] o.so.syntax = "text" -> [dict |-> TRUE, raw |-> TRUE, members |-> NoMetrics]
      [] OTHER -> [dict |-> FALSE, raw |-> FALSE, members |-> NoMetrics]

\* lines 266-277 on the stdout of a run that exited zero: the metrics and
\* the raw output, or the ValueError float() raises on a captured text
\* that is no number (the margin pattern's or the ber pattern's)
ImplOutput(o) ==
    LET parsed == ParseJsonOrRaw(o) IN
    IF parsed.dict
    THEN [raises |-> FALSE, metrics |-> CascadeMetrics(parsed.members), raw |-> parsed.raw]
    ELSE IF o.so.cap = "bad" \/ o.so.ber = "bad"
         THEN [raises |-> TRUE, metrics |-> NoMetrics, raw |-> TRUE]
         ELSE [raises |-> FALSE, raw |-> TRUE,
               metrics |-> [k \in (IF o.so.cap = "num" THEN {"logic_margin"} ELSE {})
                                     \cup (IF o.so.ber = "num" THEN {"ber_estimate"} ELSE {}) |->
                               IF k = "logic_margin" THEN 1 ELSE 0]]

(***************************************************************************)
(* The sanitizer of `extra`.  A flag is a sequence of characters.          *)
(* ALLOWED_EXTRA_PATTERN is compiled with re.I, so [a-z] also matches the  *)
(* upper-case letters; \w is a letter, a digit or the underscore; $ matches*)
(* at the end of the string and also just before a newline that ends it.   *)
(***************************************************************************)
Letters == {"a", "b", "e", "f", "m", "r", "t", "A"}
Digits == {"0", "1", "3", "5"}
\* ^--[a-z][a-z0-9-]*(?:=[\w.\-+eE]+)? up to the end of t
FullMatch(t) ==
    LET eqs == {i \in DOMAIN t : t[i] = "="}
        eq == IF eqs = {} THEN Len(t) + 1 ELSE CHOOSE i \in eqs : \A j \in eqs : i <= j
    IN /\ Len(t) >= 3
       /\ t[1] = "-" /\ t[2] = "-"
       /\ t[3] \in Letters
       /\ \A i \in 4..(eq - 1) : t[i] \in Letters \cup Digits \cup {"-"}
       /\ eq <= Len(t) =>
             /\ eq < Len(t)
             /\ \A i \in (eq + 1)..Len(t) : t[i] \in Letters \cup Digits \cup {"_", ".", "-", "+"}
\* ALLOWED_EXTRA_PATTERN.match(s)
PatternMatch(s) ==
    \/ FullMatch(s)
    \/ s # <<>> /\ s[Len(s)] = "\n" /\ FullMatch(SubSeq(s, 1, Len(s) - 1))

\* a sanitizer that lets every entry through
ValidateExtra_KeepsAll(extra) == extra

RECURSIVE ValidateExtra(_)
\* _validate_extra: the entries that match are appended to ok, in turn
ValidateExtra(extra) ==
    IF extra = <<>> THEN <<>>
    ELSE (IF PatternMatch(Head(extra)) THEN <<Head(extra)>> ELSE <<>>)
         \o ValidateExtra(Tail(extra))

(***************************************************************************)
(* _LRUTTL: an OrderedDict, least recently used entry first.               *)
(***************************************************************************)
RECURSIVE IndexOf(_, _, _)
IndexOf(s, key, i) ==
    IF i > Len(s) THEN 0
    ELSE IF s[i].key = key THEN i ELSE IndexOf(s, key, i + 1)
RemoveAt(s, i) == SubSeq(s, 1, i - 1) \o SubSeq(s, i + 1, Len(s))

\* a get that serves an entry however old it is
LRU_get_NoExpiry(s, key, t) ==
    LET i == IndexOf(s, key, 1) IN
    IF i = 0 THEN [hit |-> FALSE, data |-> NoResult, store |-> s]
    ELSE [hit |-> TRUE, data |-> s[i].data, store |-> Append(RemoveAt(s, i), s[i])]

\* a get that leaves the order of the entries as it is
LRU_get_NoTouch(s, key, t) ==
    LET i == IndexOf(s, key, 1) IN
    IF i = 0 THEN [hit |-> FALSE, data |-> NoResult, store |-> s]
    ELSE IF s[i].exp < t
         THEN [hit |-> FALSE, data |-> NoResult, store |-> RemoveAt(s, i)]
         ELSE [hit |-> TRUE, data |-> s[i].data, store |-> s]

\* a get that renews the expiry of the entry it serves
LRU_get_Sliding(s, key, t) ==
    LET i == IndexOf(s, key, 1) IN
    IF i = 0 THEN [hit |-> FALSE, data |-> NoResult, store |-> s]
    ELSE IF s[i].exp < t
         THEN [hit |-> FALSE, data |-> NoResult, store |-> RemoveAt(s, i)]
         ELSE [hit |-> TRUE, data |-> s[i].data,
               store |-> Append(RemoveAt(s, i), [s[i] EXCEPT !.exp = t + CACHE_TTL])]

\* _LRUTTL.get: miss when absent; expired entries are popped; a hit moves
\* the key to the most-recent end
LRU_get(s, key, t) ==
    LET i == IndexOf(s, key, 1) IN
    IF i = 0 THEN [hit |-> FALSE, data |-> NoResult, store |-> s]
    ELSE IF s[i].exp < t
         THEN [hit |-> FALSE, data |-> NoResult, store |-> RemoveAt(s, i)]
         ELSE [hit |-> TRUE, data |-> s[i].data,
               store |-> Append(RemoveAt(s, i), s[i])]

RECURSIVE DropOldest(_, _)
DropOldest(s, max) == IF Len(s) > max THEN DropOldest(Tail(s), max) ELSE s

\* a setex that leaves the value of a key already present as it was
LRU_setex_KeepsOld(s, key, ttl, value, t, max) ==
    LET i == IndexOf(s, key, 1)
        e == [key |-> key, exp |-> t + ttl, data |-> value]
    IN IF i = 0 THEN DropOldest(Append(s, e), max)
       ELSE Append(RemoveAt(s, i), s[i])

\* _LRUTTL.setex
LRU_setex(s, key, ttl, value, t, max) ==
    LET i == IndexOf(s, key, 1)
        e == [key |-> key, exp |-> t + ttl, data |-> value]
        moved == IF i = 0 THEN s ELSE Append(RemoveAt(s, i), s[i])
        put == IF i = 0 THEN Append(s, e) ELSE [moved EXCEPT ![Len(moved)] = e]
    IN DropOldest(put, max)

Keys(s) == {s[i].key : i \in DOMAIN s}

\* physics_cache.wrapper: the interesting keywords, each looked up in
\* kwargs, plus the operation name
\* (None is written <<>> for extra, which no call of the model passes empty)
InterestingNames == {"threshold", "beta", "n2", "extra"}
Interesting(call) ==
    [n \in InterestingNames \cup {"__op__"} |->
        CASE n = "__op__" -> "plogic_cascade"
          [] n = "extra" /\ n \notin KwNames(call) -> <<>>
          [] OTHER -> KwGet(call, n)]
\* _digest: json.dumps(obj, sort_keys=True) lists the items in key order;
\* the hash of that text is taken to be free of collisions
JsonKeyOrder == <<"__op__", "beta", "extra", "n2", "threshold">>
Digest(d) == [i \in 1..Len(JsonKeyOrder) |-> <<JsonKeyOrder[i], d[JsonKeyOrder[i]]>>]
CacheKey(kw) == Digest(Interesting(PyCall(kw)))

(***************************************************************************)
(* The distributed store.  mode "none": REDIS_URL is unset or the redis    *)
(* package is missing, _redis() returns None; "up": the server answers;    *)
(* "down": every command raises ConnectionError.  An entry holds the JSON  *)
(* text of a result and is gone once its expiry is reached.                *)
(***************************************************************************)
NoRedis == [mode |-> "none", store |-> {}]
JsonDumps(res) == [json |-> res]
JsonLoads(text) == text.json
Redis_get(store, key, t) ==
    LET live == {e \in store : e.key = key /\ t < e.exp} IN
    IF live = {} THEN [hit |-> FALSE, data |-> NoResult]
    ELSE [hit |-> TRUE, data |-> JsonLoads((CHOOSE e \in live : TRUE).text)]
Redis_setex(store, key, ttl, text, t) ==
    {e \in store : e.key # key /\ t < e.exp} \cup {[key |-> key, exp |-> t + ttl, text |-> text]}

VARIABLES
    now,        \* time.time(), seconds
    maxItems,   \* _LRUTTL.max_items
    workers,    \* _MAX_WORKERS, the size of _EXECUTOR
    sim,        \* per parameter vector, the ways the simulator may answer
    lru,        \* _LRU._store
    calls,      \* the plogic_cascade calls made so far, in call order
    queue,      \* _EXECUTOR's work queue
    running,    \* the work items that occupy a worker thread
    nextId,     \* stands for uuid.uuid4(): the next fresh run_id
    sweep,      \* the plogic_sweep_parallel call, if any
    evicted,    \* history: keys dropped by the capacity bound and not stored since
    redis,      \* the distributed store: whether _redis() returns a client, whether
                \* the server answers, and the entries it holds
    hasSkopt,   \* _HAS_SKOPT: the model-based strategy is available
    batch,      \* min(8, os.cpu_count()): the fallback's batch size
    bo          \* the plogic_bo_run calls

cascadeVars == <<now, workers, maxItems, sim, lru, calls, queue, running, nextId, evicted,
                 redis>>
boVars == <<hasSkopt, batch, bo>>

(***************************************************************************)
(* plogic_bo_run.  A run holds the locals trace and best of lines 383-384, *)
(* the evaluations in flight (slots: the one _sync_obj call of the         *)
(* optimizer's thread, or the sample_once coroutines of a fallback batch)  *)
(* and, as history, every record ever appended (hist).                     *)
(***************************************************************************)
Runs == 1..NRuns
InitBest == [objective |-> FInf, params |-> NoPoint, result |-> NoResult]
NoRunPayload == [best |-> InitBest, trace_count |-> 0, trace |-> <<>>]
IdleRun ==
    [pc |-> "idle", w |-> 0, n_calls |-> 0, remain |-> 0, trace |-> <<>>,
     best |-> InitBest, slots |-> <<>>, orphans |-> <<>>, hist |-> <<>>,
     payload |-> NoRunPayload, file |-> <<>>]

\* the future of one _objective_eval coroutine: "scheduled" (it has not
\* run yet), "pending" (it awaits its plogic_cascade call), "done" (it
\* has returned or raised), and for the bridge "set": the future the
\* optimizer's thread waits on has been given the outcome
NoFut == [state |-> "scheduled", call |-> 0, ok |-> FALSE, obj |-> FInf,
          res |-> NoResult, msg |-> ""]
\* one evaluation in flight: pc "wait" until the result or the deadline dl,
\* then "trim", "update", "done" (lines 356-360 and 414-418); rec is the
\* record it appended
NoRecord == [params |-> NoPoint, objective |-> FInf, metrics |-> NoMetrics,
             result |-> NoResult, n |-> 0]
NewSlot(p, dl) == [pc |-> "wait", pt |-> p, dl |-> dl, fut |-> NoFut, rec |-> NoRecord,
                   failed |-> FALSE, bestIn |-> InitBest]

\* an event loop that lets another coroutine run at any point
LoopHeld_Yields == FALSE

\* a fallback coroutine between its resumption and its end holds the event
\* loop: lines 412-418 contain no await
LoopHeld ==
    \E r \in Runs : \E i \in DOMAIN bo[r].slots :
        ~hasSkopt /\ bo[r].slots[i].pc \in {"trim", "update"}

(***************************************************************************)
(* A call: plogic_cascade, or one of the tools plogic_characterize,        *)
(* plogic_truth_table and plogic_health (owner names the caller of a       *)
(* plogic_cascade call, or the tool).  pc is the position of its           *)
(* coroutines between two returns to the event loop:                       *)
(*   "started"    wait_for(_impl()) has made the task of _impl and waits;  *)
(*                _impl has not run yet, no work item exists               *)
(*   "waiting"    _impl awaits run_in_executor(_EXECUTOR, _run_cli, args): *)
(*                the work item is queued or on a worker                   *)
(*   "exited"     _run_cli has returned or raised in the worker thread,    *)
(*                _impl has not resumed yet                                *)
(*   "built"      _impl has returned or raised (res), the coroutine that   *)
(*                awaits wait_for has not resumed yet                      *)
(*   "cancelling" wait_for has given up and cancelled _impl; the           *)
(*                TimeoutError has not been raised yet.  The work item     *)
(*                may still be queued: the cancellation reaches the        *)
(*                executor's future in a callback of its own               *)
(*   "done"       the call has returned or raised (res).                   *)
(* t0 is when wait_for started (its deadline is t0 + the timeout), job the *)
(* simulator run made for it (argv: the arguments _run_cli receives after  *)
(* the fixed ones).                                                        *)
(* errs counts the MET_RUNS_ERR.inc() made for the call, mirrored the      *)
(* _maybe_mlflow_log calls made for its result (experiment tracking is     *)
(* taken to be enabled: the mlflow package is importable).                 *)
(* hit, invoked, tdone, ord, after, lost, timedOut are history: whether    *)
(* the wrapper served it from the cache, whether _run_cli was entered for  *)
(* it, when it completed, the rank of its setex among the setex calls made *)
(* (0: it stored nothing), which calls had completed when it was made,     *)
(* whether its key had by then been dropped by the capacity bound, and     *)
(* whether wait_for gave up on it.                                         *)
(***************************************************************************)
Tools == {"characterize", "truth_table", "health"}
NoJob == [start |-> 0, outcome |-> NoOutcome, argv |-> <<>>]
\* work items of _EXECUTOR: _run_cli for a call, or _skopt_runner for a run
CliItem(c) == [what |-> "cli", id |-> c]
DriverItem(r) == [what |-> "driver", id |-> r]
NewCall(kw, owner, t, after, lost) ==
    [pc |-> "started", kw |-> kw, owner |-> owner, t0 |-> t, res |-> NoResult,
     hit |-> FALSE, invoked |-> FALSE, tdone |-> 0, ord |-> 0, job |-> NoJob,
     after |-> after, lost |-> lost, errs |-> 0, timedOut |-> FALSE, mirrored |-> 0]
Built(c, res) == [c EXCEPT !.pc = "built", !.res = res]
Finished(c, res, t) == [c EXCEPT !.pc = "done", !.res = res, !.tdone = t]
\* the call returns the result it has just stored
Stored(c, t) ==
    [Finished(c, c.res, t) EXCEPT
        !.ord = 1 + Cardinality({d \in DOMAIN calls : calls[d].ord > 0})]
\* lines 263-265: the error counter is incremented, then RuntimeError(msg)
ExitFailed(c, msg) ==
    [Built(c, ErrResult(c.kw.pt, "RuntimeError", msg)) EXCEPT !.errs = @ + 1]
\* lines 294-296: the error counter is incremented, then RuntimeError
TimedOut(c, t) ==
    [Finished(c, ErrResult(c.kw.pt, "RuntimeError", "Cascade simulation timed out"), t)
        EXCEPT !.errs = @ + 1, !.timedOut = TRUE]

\* line 290: _impl mirrors the result it is about to return
Mirrored(c) == [c EXCEPT !.mirrored = @ + 1]

\* a deadline that runs from the moment the simulator was started
Deadline_FromRun(c) ==
    IF c.invoked THEN c.job.start + CASCADE_TIMEOUT ELSE c.t0 + CASCADE_TIMEOUT

\* line 293: wait_for's deadline runs from the call
Deadline(c) == c.t0 + CASCADE_TIMEOUT

\* plogic_cascade(*args, **kwargs) raises TypeError for a keyword it does
\* not have, for too many positional arguments and for a parameter given twice
BindsSignature(kw) ==
    LET call == PyCall(kw) IN
    /\ Len(call.args) <= Len(ParamNames)
    /\ KwNames(call) \subseteq {ParamNames[i] : i \in DOMAIN ParamNames} \cup {"extra"}
    /\ \A i \in 1..Len(call.args) : ParamNames[i] \notin KwNames(call)
TypeErrorMsg == "plogic_cascade() got an unexpected keyword argument"

(***************************************************************************)
(* physics_cache.wrapper up to its first suspension, on the machine state  *)
(* st = [lru, calls]: cache lookup (in the distributed store when          *)
(* _redis() returns a client, whose get raises when the store is down; in  *)
(* _LRU otherwise); on a miss the call of fn, which either raises          *)
(* TypeError at once or reaches wait_for(_impl()), which makes the task of *)
(* _impl and suspends.                                                     *)
(***************************************************************************)
WrapperEntry(s, kw, t) ==
    LET g == IF redis.mode = "up"
             THEN [hit |-> Redis_get(redis.store, CacheKey(kw), t).hit,
                   data |-> Redis_get(redis.store, CacheKey(kw), t).data, store |-> s]
             ELSE LRU_get(s, CacheKey(kw), t)
    IN
    IF redis.mode = "down"
    THEN [kind |-> "raise", res |-> ErrResult(kw.pt, "ConnectionError", "Error connecting to the store"),
          store |-> s]
    ELSE IF g.hit THEN [kind |-> "hit", res |-> g.data, store |-> g.store]
    ELSE IF ~BindsSignature(kw)
         THEN [kind |-> "raise", res |-> ErrResult(kw.pt, "TypeError", TypeErrorMsg),
               store |-> g.store]
         ELSE [kind |-> "run", res |-> NoResult, store |-> g.store]

StartCall(st, kw, owner, t) ==
    LET e == WrapperEntry(st.lru, kw, t)
        c == NewCall(kw, owner, t,
                     {i \in DOMAIN st.calls : st.calls[i].pc = "done"},
                     CacheKey(kw) \in evicted)
    IN [lru |-> e.store,
        calls |-> Append(st.calls,
                         CASE e.kind = "hit" -> [Finished(c, e.res, t) EXCEPT !.hit = TRUE]
                           [] e.kind = "raise" -> Finished(c, e.res, t)
                           [] OTHER -> c)]

Machine == [lru |-> lru, calls |-> calls]

\* the calls made so far, those of a gather that has not started included
CallsMade == Len(calls) + (IF sweep.pc = "starting" THEN Len(sweep.configs) ELSE 0)

\* a caller awaits plogic_cascade(**kw) directly: the wrapper runs up to
\* its first suspension (lines 186-198 and 292-293)
Call(kw) ==
    /\ CallsMade < NCalls
    /\ ~LoopHeld
    /\ LET st == StartCall(Machine, kw, "direct", now) IN
        /\ lru' = st.lru
        /\ calls' = st.calls
    /\ UNCHANGED <<now, workers, maxItems, sim, queue, running, nextId, sweep, evicted, redis,
                   hasSkopt, batch, bo>>

\* the task of _impl runs up to its first suspension: it builds the
\* arguments and hands _run_cli to the executor (lines 252-260 for
\* plogic_cascade, 211, 223-230 and 441-442 for the tools)
Submit(c) ==
    /\ c \in DOMAIN calls
    /\ calls[c].pc = "started"
    /\ \A d \in 1..(c - 1) : calls[d].pc # "started"    \* tasks start in the order made
    /\ ~LoopHeld
    /\ calls' = [calls EXCEPT ![c].pc = "waiting"]
    /\ queue' = Append(queue, CliItem(c))
    /\ UNCHANGED <<now, workers, maxItems, sim, lru, running, nextId, sweep, evicted, redis,
                   hasSkopt, batch, bo>>

\* a pool that starts a thread for every work item
WorkerFree_Always == TRUE

\* line 50: ThreadPoolExecutor(max_workers=_MAX_WORKERS) runs at most
\* _MAX_WORKERS work items at a time
WorkerFree == Cardinality(running) < workers

\* ThreadPoolExecutor: an idle worker takes the oldest work item and enters
\* _run_cli (subprocess.run, which has no timeout of its own); the
\* simulator answers in one of the ways sim allows for these arguments
WorkerPick ==
    /\ queue # <<>>
    /\ Head(queue).what = "cli"
    /\ WorkerFree
    /\ LET c == Head(queue).id IN
        /\ queue' = Tail(queue)
        /\ running' = running \cup {CliItem(c)}
        /\ \E o \in sim[calls[c].kw.pt] :
              calls' = [calls EXCEPT ![c].invoked = TRUE,
                                     ![c].job = [start |-> now, outcome |-> o,
                                                 argv |-> ValidateExtra(calls[c].kw.extra)]]
    /\ UNCHANGED <<now, workers, maxItems, sim, lru, nextId, sweep, evicted, redis, hasSkopt, batch, bo>>

\* str.strip on the stderr texts the simulators of the model print
Strip(text) ==
    CASE text = "boom\n" -> "boom"
      [] text = " \n" -> ""
      [] OTHER -> text

\* a message that is the stripped stderr even when nothing is left of it
FailMsg_NoFallback(stderr) == Strip(stderr)

\* the message of the RuntimeError for a non-zero exit (line 265)
FailMsg(stderr) == IF Strip(stderr) = "" THEN "plogic cascade failed" ELSE Strip(stderr)

\* lines 292-296: when wait_for gives up it cancels _impl, so for a call
\* that is no longer waiting nothing runs after `await run_in_executor`
\* (line 260) and the wrapper never reaches its setex
Cancelled(c) == c.pc # "waiting"

\* the subprocess exits, or could not be started, and _run_cli returns or
\* raises in the worker thread: the worker is free at once, and the future
\* _impl awaits is resolved unless _impl has been cancelled
WorkerDone(c) ==
    /\ c \in DOMAIN calls
    /\ CliItem(c) \in running
    /\ calls[c].job.outcome.kind # "hang"
    /\ now = calls[c].job.start + calls[c].job.outcome.dur
    /\ running' = running \ {CliItem(c)}
    /\ calls' = IF Cancelled(calls[c]) THEN calls ELSE [calls EXCEPT ![c].pc = "exited"]
    /\ UNCHANGED <<now, workers, maxItems, sim, lru, queue, nextId, sweep, evicted, redis,
                   hasSkopt, batch, bo>>

\* the text of the FileNotFoundError (errno 2) for a file that is not
\* there: what subprocess.run raises when it cannot start the simulator,
\* and open for a csv file that was not written
NoSuchFileMsg == "[Errno 2] No such file or directory"

\* _impl of plogic_cascade resumes with what _run_cli returned and runs to
\* its end (lines 260-291): the error for a non-zero exit, or the result,
\* which it mirrors
JobFinish(c) ==
    /\ c \in DOMAIN calls
    /\ calls[c].owner \notin Tools
    /\ calls[c].pc = "exited"
    /\ ~LoopHeld
    /\ LET o == calls[c].job.outcome
           impl == ImplOutput(o)
           res == [OkResult(nextId, calls[c].kw.pt, impl.metrics, now - calls[c].t0)
                      EXCEPT !.raw = impl.raw, !.extra = ValidateExtra(calls[c].kw.extra)]
       IN IF o.kind = "raise"
          THEN /\ calls' = [calls EXCEPT ![c] =
                               Built(@, ErrResult(@.kw.pt, "FileNotFoundError",
                                                       NoSuchFileMsg))]
               /\ UNCHANGED nextId
          ELSE IF o.kind = "fail"
               THEN /\ calls' = [calls EXCEPT ![c] = ExitFailed(@, FailMsg(o.stderr))]
                    /\ UNCHANGED nextId
          ELSE IF impl.raises
               THEN /\ calls' = [calls EXCEPT ![c] =
                                    Built(@, ErrResult(@.kw.pt, "ValueError",
                                                       "could not convert string to float: '.'"))]
                    /\ UNCHANGED nextId
               ELSE /\ calls' = [calls EXCEPT ![c] = Mirrored(Built(@, res))]
                    /\ nextId' = nextId + 1
    /\ UNCHANGED <<now, workers, maxItems, sim, lru, queue, running, sweep, evicted, redis,
                   hasSkopt, batch, bo>>

\* wait_for hands on what _impl returned or raised and physics_cache.wrapper
\* resumes (lines 198-204): an exception leaves it at once; a result is
\* serialized (line 199) and stored, in the distributed store when _redis()
\* returned a client (setex raises when the store is down), in _LRU
\* otherwise, and returned
WrapperReturn(c) ==
    /\ c \in DOMAIN calls
    /\ calls[c].owner \notin Tools
    /\ calls[c].pc = "built"
    /\ ~LoopHeld
    /\ LET res == calls[c].res IN
          IF res.kind = "error"
          THEN /\ calls' = [calls EXCEPT ![c] = Finished(@, res, now)]
               /\ UNCHANGED <<lru, evicted, redis>>
          ELSE IF calls[c].job.outcome.so.nan    \* _json_dumps(out), allow_nan=False
               THEN /\ calls' = [calls EXCEPT ![c] =
                                    Finished(@, ErrResult(@.kw.pt, "ValueError",
                                        "Out of range float values are not JSON compliant"), now)]
                    /\ UNCHANGED <<lru, evicted, redis>>
          ELSE IF redis.mode = "down"
               THEN /\ calls' = [calls EXCEPT ![c] =
                                    Finished(@, ErrResult(@.kw.pt, "ConnectionError",
                                        "Error connecting to the store"), now)]
                    /\ UNCHANGED <<lru, evicted, redis>>
          ELSE IF redis.mode = "up"
               THEN /\ calls' = [calls EXCEPT ![c] = Stored(@, now)]
                    /\ redis' = [redis EXCEPT !.store =
                                    Redis_setex(@, CacheKey(calls[c].kw), CACHE_TTL, JsonDumps(res), now)]
                    /\ UNCHANGED <<lru, evicted>>
               ELSE /\ calls' = [calls EXCEPT ![c] = Stored(@, now)]
                    /\ lru' = LRU_setex(lru, CacheKey(calls[c].kw), CACHE_TTL, res, now, maxItems)
                    /\ evicted' = (evicted \cup (Keys(lru) \ Keys(lru')))
                                       \ {CacheKey(calls[c].kw)}
                    /\ UNCHANGED redis
    /\ UNCHANGED <<now, workers, maxItems, sim, queue, running, nextId, sweep, hasSkopt, batch, bo>>

RECURSIVE Without(_, _)
Without(s, x) ==
    IF s = <<>> THEN <<>>
    ELSE IF Head(s) = x THEN Without(Tail(s), x) ELSE <<Head(s)>> \o Without(Tail(s), x)

\* the deadline has passed and wait_for resumes before _impl has returned:
\* it cancels the task of _impl and waits for it to end (line 293).  The
\* work item is where it was: queued, on a worker, or gone.
CascadeTimeout(c) ==
    /\ c \in DOMAIN calls
    /\ calls[c].owner \notin Tools
    /\ calls[c].pc \in {"started", "waiting", "exited"}
    /\ now >= Deadline(calls[c])
    /\ ~LoopHeld
    /\ calls' = [calls EXCEPT ![c].pc = "cancelling", ![c].timedOut = TRUE]
    /\ UNCHANGED <<now, workers, maxItems, sim, lru, queue, running, nextId, sweep, evicted,
                   redis, hasSkopt, batch, bo>>

\* the next callback of the loop passes the cancellation on to the future
\* of the executor (run_in_executor, lines 260, 211, 230 and 442): a work
\* item still queued is cancelled and will not run.  One that a worker has
\* taken in the meantime, or before, keeps its worker until the subprocess
\* exits.
CancelItem(c) ==
    /\ c \in DOMAIN calls
    /\ calls[c].pc = "cancelling"
    /\ \E k \in DOMAIN queue : queue[k] = CliItem(c)
    /\ ~LoopHeld
    /\ queue' = Without(queue, CliItem(c))
    /\ UNCHANGED <<now, workers, maxItems, sim, lru, calls, running, nextId, sweep, evicted,
                   redis, hasSkopt, batch, bo>>

\* the cancelled _impl has ended (after the cancellation was passed on)
\* and wait_for raises TimeoutError: plogic_cascade counts the error and
\* raises RuntimeError("Cascade simulation timed out") (lines 294-296);
\* plogic_health catches it and answers unhealthy, the error text empty
\* (lines 447-448); plogic_characterize and plogic_truth_table let it
\* through
TimeoutRaise(c) ==
    /\ c \in DOMAIN calls
    /\ calls[c].pc = "cancelling"
    /\ \A k \in DOMAIN queue : queue[k] # CliItem(c)
    /\ ~LoopHeld
    /\ calls' = [calls EXCEPT ![c] =
                    IF @.owner = "health"
                    THEN Finished(@, [NoResult EXCEPT !.kind = "unhealthy"], now)
                    ELSE IF @.owner \in Tools
                         THEN Finished(@, ErrResult(@.kw.pt, "TimeoutError", ""), now)
                         ELSE TimedOut(@, now)]
    /\ UNCHANGED <<now, workers, maxItems, sim, lru, queue, running, nextId, sweep, evicted,
                   redis, hasSkopt, batch, bo>>

(***************************************************************************)
(* The clock.  It advances in steps of TickSteps and never jumps over a    *)
(* pending deadline or over the exit of a running subprocess; an idle      *)
(* worker takes a queued work item, and a coroutine that is ready to run   *)
(* runs, before any time passes.                                           *)
(***************************************************************************)
TickSteps == {30, 1800}
TicksUsed(t) == (t \div 1800) + ((t % 1800) \div 30)
TimeMayPass(d) ==
    /\ queue = <<>> \/ Cardinality(running) >= workers
    /\ \A c \in DOMAIN calls :
          /\ calls[c].pc = "waiting" => now + d <= Deadline(calls[c])
          /\ calls[c].pc \notin {"started", "exited", "built", "cancelling"}
    /\ sweep.pc # "starting"
    /\ \A c \in DOMAIN calls :
          (CliItem(c) \in running /\ calls[c].job.outcome.kind # "hang")
              => now + d <= calls[c].job.start + calls[c].job.outcome.dur
    /\ \A r \in Runs : \A i \in DOMAIN bo[r].slots :
          /\ bo[r].slots[i].pc = "wait" =>
                /\ now + d <= bo[r].slots[i].dl
                /\ bo[r].slots[i].fut.state # "done"
                /\ hasSkopt \/ bo[r].slots[i].fut.state # "scheduled"
          /\ bo[r].slots[i].pc \notin {"trim", "update"}
Tick(d) ==
    /\ TicksUsed(now) < MaxTicks
    /\ TimeMayPass(d)
    /\ now' = now + d
    /\ UNCHANGED <<workers, maxItems, sim, lru, calls, queue, running, nextId, sweep, evicted, redis, hasSkopt, batch, bo>>

(***************************************************************************)
(* plogic_sweep_parallel.                                                  *)
(***************************************************************************)
NoPayload == [count_ok |-> 0, count_error |-> 0, results |-> <<>>, errors |-> <<>>]
IdleSweep == [pc |-> "idle", configs |-> <<>>, ids |-> <<>>, payload |-> NoPayload]

RECURSIVE StartAll(_, _, _)
\* asyncio.gather starts the tasks in list order; each runs the wrapper up
\* to its first suspension before any of them can complete
StartAll(st, cfgs, t) ==
    IF cfgs = <<>> THEN st
    ELSE StartAll(StartCall(st, Head(cfgs), "sweep", t), Tail(cfgs), t)

SweepConfigs == UNION { [1..n -> Kwargs] : n \in 0..MaxSweep }

\* plogic_sweep_parallel is called: line 301 makes a task for every
\* config and suspends in gather before any of them has run
SweepStart(cfgs) ==
    /\ sweep.pc = "idle"
    /\ ~LoopHeld
    /\ CallsMade + Len(cfgs) <= NCalls
    /\ sweep' = [sweep EXCEPT !.pc = "starting", !.configs = cfgs]
    /\ UNCHANGED <<now, workers, maxItems, sim, lru, calls, queue, running, nextId, evicted,
                   redis, hasSkopt, batch, bo>>

\* the tasks of gather take their first steps one after the other: each
\* runs the wrapper up to its first suspension (lines 186-198 and 292-293)
SweepEnter ==
    /\ sweep.pc = "starting"
    /\ ~LoopHeld
    /\ LET st == StartAll(Machine, sweep.configs, now) IN
        /\ lru' = st.lru
        /\ calls' = st.calls
    /\ sweep' = [sweep EXCEPT !.pc = "gather",
                               !.ids = [i \in 1..Len(sweep.configs) |-> Len(calls) + i]]
    /\ UNCHANGED <<now, workers, maxItems, sim, queue, running, nextId, evicted, redis,
                   hasSkopt, batch, bo>>

\* the error record of lines 305-310 (the traceback text carries nothing)
ErrorRecord(r, cfg) == [error |-> r.msg, type |-> r.etype, config |-> cfg]

RECURSIVE SweepOk_Reversed(_, _)
\* a split that collects the results last-first
SweepOk_Reversed(rs, i) ==
    IF i > Len(rs) THEN <<>>
    ELSE SweepOk_Reversed(rs, i + 1) \o (IF rs[i].kind = "ok" THEN <<rs[i]>> ELSE <<>>)
RECURSIVE SweepOk(_, _)
SweepOk(rs, i) ==
    IF i > Len(rs) THEN <<>>
    ELSE (IF rs[i].kind = "ok" THEN <<rs[i]>> ELSE <<>>) \o SweepOk(rs, i + 1)
RECURSIVE SweepErr(_, _, _)
SweepErr(rs, cfgs, i) ==
    IF i > Len(rs) THEN <<>>
    ELSE (IF rs[i].kind = "ok" THEN <<>> ELSE <<ErrorRecord(rs[i], cfgs[i])>>)
         \o SweepErr(rs, cfgs, i + 1)

\* lines 302-320: split the gathered results into ok and err
SweepPayload(rs, cfgs) ==
    LET ok == SweepOk(rs, 1)
        err == SweepErr(rs, cfgs, 1)
    IN [count_ok |-> Len(ok), count_error |-> Len(err), results |-> ok, errors |-> err]

\* a gather that returns with the first task that failed
GatherDone_FirstException(ids) ==
    \/ \A i \in DOMAIN ids : calls[ids[i]].pc = "done"
    \/ \E i \in DOMAIN ids : calls[ids[i]].pc = "done" /\ calls[ids[i]].res.kind = "error"

\* gather(return_exceptions=True) returns once every task has finished
GatherDone(ids) == \A i \in DOMAIN ids : calls[ids[i]].pc = "done"

SweepFinish ==
    /\ sweep.pc = "gather"
    /\ ~LoopHeld
    /\ GatherDone(sweep.ids)
    /\ sweep' = [sweep EXCEPT !.pc = "done",
                               !.payload = SweepPayload([i \in DOMAIN sweep.ids |->
                                                           calls[sweep.ids[i]].res],
                                                        sweep.configs)]
    /\ UNCHANGED <<cascadeVars, boVars>>

(***************************************************************************)
(* plogic_bo_run: setup, the two strategies, the bridge.                   *)
(***************************************************************************)
Weights == {1, 2}
\* the keywords _objective_eval passes: {**fixed, **params}; fixed always
\* holds objective_margin_weight (line 377)
EvalKwargs(p) == [PlainCall(p) EXCEPT !.extraKw = TRUE]

\* lines 339-342: ber - alpha * margin with the defaults 1.0 and 0.0
Objective(m, w) ==
    (IF "ber_estimate" \in DOMAIN m THEN m.ber_estimate ELSE 1)
        - w * (IF "logic_margin" \in DOMAIN m THEN m.logic_margin ELSE 0)

UpdRun(r, f) == [bo EXCEPT ![r] = f]
\* a batch size that is not cut to what remains
Min2_First(a, b) == a
\* line 422: k = min(batch, remain)
Min2(a, b) == IF a < b THEN a ELSE b

\* plogic_bo_run is called: lines 374-398 (the driver loop is handed to the
\* executor) or 374-420 (fallback).  n_calls is not checked; what
\* gp_minimize does with n_calls = 0 is the optimizer library's business,
\* so the model-based strategy is only started with n_calls >= 1.
BoStart(r, n, w) ==
    /\ bo[r].pc = "idle"
    /\ ~LoopHeld
    /\ hasSkopt => n >= 1
    /\ bo' = UpdRun(r, [IdleRun EXCEPT !.pc = IF hasSkopt THEN "queued" ELSE "batching",
                                        !.w = w, !.n_calls = n, !.remain = n])
    /\ queue' = IF hasSkopt THEN Append(queue, DriverItem(r)) ELSE queue
    /\ UNCHANGED <<now, workers, maxItems, sim, lru, calls, running, nextId, sweep, evicted,
                   redis, hasSkopt, batch>>

\* an idle worker takes _skopt_runner and keeps it until gp_minimize returns
DriverPick ==
    /\ queue # <<>>
    /\ Head(queue).what = "driver"
    /\ WorkerFree
    /\ queue' = Tail(queue)
    /\ running' = running \cup {Head(queue)}
    /\ bo' = UpdRun(Head(queue).id, [bo[Head(queue).id] EXCEPT !.pc = "driving"])
    /\ UNCHANGED <<now, workers, maxItems, sim, lru, calls, nextId, sweep, evicted, redis, hasSkopt, batch>>

\* gp_minimize calls _sync_obj(pt): lines 349-352, the coroutine is handed
\* to the loop and the thread blocks on fut.result(timeout=OBJ_TIMEOUT)
BoAsk(r, p) ==
    /\ bo[r].pc = "driving"
    /\ bo[r].remain > 0
    /\ bo[r].slots = <<>>
    /\ bo' = UpdRun(r, [bo[r] EXCEPT !.slots =
                            <<[NewSlot(p, now + OBJ_TIMEOUT) EXCEPT !.bestIn = bo[r].best]>>])
    /\ UNCHANGED <<cascadeVars, sweep, hasSkopt, batch>>

\* lines 421-423: the next batch of sample_once coroutines starts; each
\* draws its point and awaits wait_for(_objective_eval(...), OBJ_TIMEOUT)
BatchStart(r, pts) ==
    /\ bo[r].pc = "batching"
    /\ bo[r].remain > 0
    /\ bo[r].slots = <<>>
    /\ ~LoopHeld
    /\ DOMAIN pts = 1..Min2(batch, bo[r].remain)
    /\ bo' = UpdRun(r, [bo[r] EXCEPT !.slots =
                            [i \in DOMAIN pts |->
                                [NewSlot(pts[i], now + OBJ_TIMEOUT) EXCEPT !.bestIn = bo[r].best]]])
    /\ UNCHANGED <<cascadeVars, sweep, hasSkopt, batch>>

FutOk(res, w) ==
    [state |-> "done", call |-> 0, ok |-> TRUE, obj |-> Fin(Objective(res.metrics, w)),
     res |-> res, msg |-> ""]
FutRaised(msg) ==
    [state |-> "done", call |-> 0, ok |-> FALSE, obj |-> FInf, res |-> NoResult, msg |-> msg]

\* the loop runs _objective_eval (lines 335-345) for slot i: the await of
\* plogic_cascade(**kwargs) either ends at once (hit, or TypeError) or
\* suspends in wait_for, and then resumes when that call is done.  The
\* loop starts the coroutines handed to it in the order they were handed
\* over: those left behind by earlier waits of the run come first
EvalStep(r, i) ==
    /\ i \in DOMAIN bo[r].slots
    /\ bo[r].slots[i].pc = "wait"
    /\ ~LoopHeld
    /\ LET sl == bo[r].slots[i]
           kw == EvalKwargs(sl.pt)
       IN \/ /\ sl.fut.state = "scheduled"
             /\ bo[r].orphans = <<>>
             /\ LET e == WrapperEntry(lru, kw, now)
                    st == StartCall(Machine, kw, "bo", now)
                IN IF e.kind = "run"
                   THEN /\ CallsMade < NCalls
                        /\ lru' = st.lru
                        /\ calls' = st.calls
                        /\ bo' = UpdRun(r, [bo[r] EXCEPT !.slots[i].fut =
                                    [NoFut EXCEPT !.state = "pending", !.call = Len(st.calls)]])
                   ELSE /\ lru' = e.store
                        /\ UNCHANGED calls
                        /\ bo' = UpdRun(r, [bo[r] EXCEPT !.slots[i].fut =
                                    IF e.kind = "hit" THEN FutOk(e.res, bo[r].w)
                                    ELSE FutRaised(e.res.msg)])
          \/ /\ sl.fut.state = "pending"
             /\ calls[sl.fut.call].pc = "done"
             /\ bo' = UpdRun(r, [bo[r] EXCEPT !.slots[i].fut =
                         IF calls[sl.fut.call].res.kind = "ok"
                         THEN FutOk(calls[sl.fut.call].res, bo[r].w)
                         ELSE FutRaised(calls[sl.fut.call].res.msg)])
             /\ UNCHANGED <<lru, calls>>
    /\ UNCHANGED <<now, workers, maxItems, sim, queue, running, nextId, sweep, evicted, redis,
                   hasSkopt, batch>>

\* lines 356-357 and 414-415: the record is built and appended
Record(p, obj, res, n) ==
    [params |-> p, objective |-> obj, metrics |-> res.metrics, result |-> res, n |-> n]
Appended(run, i, rec, failed) ==
    [run EXCEPT !.trace = Append(@, rec), !.hist = Append(@, rec),
                !.slots[i].pc = "trim", !.slots[i].rec = rec, !.slots[i].failed = failed]

\* an except clause that lets the timeout through
CatchesFailure_NotTimeout(msg) == msg # ""

\* line 353 and line 412: `except Exception` catches what the wait raises
CatchesFailure(msg) == TRUE

\* line 351, run_coroutine_threadsafe: once the task of _objective_eval
\* is done, the next callback of the loop copies its outcome to the
\* future _sync_obj waits on
SetState(r, i) ==
    /\ hasSkopt
    /\ i \in DOMAIN bo[r].slots
    /\ bo[r].slots[i].pc = "wait"
    /\ bo[r].slots[i].fut.state = "done"
    /\ bo' = UpdRun(r, [bo[r] EXCEPT !.slots[i].fut.state = "set"])
    /\ UNCHANGED <<cascadeVars, sweep, hasSkopt, batch>>

\* fut.result / wait_for returns or raises what the evaluation did: lines
\* 352-357 and 411-415
SlotGet(r, i) ==
    /\ i \in DOMAIN bo[r].slots
    /\ bo[r].slots[i].pc = "wait"
    /\ bo[r].slots[i].fut.state = (IF hasSkopt THEN "set" ELSE "done")
    /\ hasSkopt \/ ~LoopHeld
    /\ LET sl == bo[r].slots[i]
           n == Len(bo[r].hist) + 1
       IN bo' = UpdRun(r,
                  IF sl.fut.ok
                  THEN Appended(bo[r], i, Record(sl.pt, sl.fut.obj, sl.fut.res, n), FALSE)
                  ELSE IF CatchesFailure(sl.fut.msg)
                       THEN Appended(bo[r], i,
                                Record(sl.pt, FInf, ErrResult(sl.pt, "", sl.fut.msg), n), TRUE)
                       ELSE [bo[r] EXCEPT !.pc = "crashed"])
    /\ UNCHANGED <<cascadeVars, sweep, hasSkopt, batch>>

\* the deadline passes first: TimeoutError, whose text is empty.  The
\* thread of the bridge stops waiting whenever its future has not been
\* given the outcome, be the evaluation finished or not, and leaves the
\* coroutine to run on (an orphan).  wait_for resumes after the task it
\* made has run: it takes the result of a finished evaluation whatever the
\* time, and cancels one that still awaits its call.
TimeoutText == ""
SlotTimeout(r, i) ==
    /\ i \in DOMAIN bo[r].slots
    /\ bo[r].slots[i].pc = "wait"
    /\ IF hasSkopt THEN bo[r].slots[i].fut.state # "set"
                   ELSE bo[r].slots[i].fut.state = "pending"
    /\ now >= bo[r].slots[i].dl
    /\ hasSkopt \/ ~LoopHeld
    /\ LET sl == bo[r].slots[i]
           n == Len(bo[r].hist) + 1
           run == IF hasSkopt /\ sl.fut.state = "scheduled"
                  THEN [bo[r] EXCEPT !.orphans = Append(@, sl.pt)]
                  ELSE bo[r]
       IN bo' = UpdRun(r,
                  IF CatchesFailure(TimeoutText)
                  THEN Appended(run, i,
                           Record(sl.pt, FInf, ErrResult(sl.pt, "", TimeoutText), n), TRUE)
                  ELSE [bo[r] EXCEPT !.pc = "crashed"])
    /\ UNCHANGED <<cascadeVars, sweep, hasSkopt, batch>>

\* an orphaned _objective_eval coroutine still runs on the loop; nobody
\* waits for its result.  Every wait that timed out before its coroutine
\* ran has left one (orphans, in the order of line 351), and the loop runs
\* the oldest first
OrphanRun(r, p) ==
    /\ bo[r].orphans # <<>>
    /\ p = Head(bo[r].orphans)
    /\ ~LoopHeld
    /\ lru' = WrapperEntry(lru, EvalKwargs(p), now).store
    /\ bo' = UpdRun(r, [bo[r] EXCEPT !.orphans = Tail(@)])
    /\ UNCHANGED <<now, workers, maxItems, sim, calls, queue, running, nextId, sweep, evicted,
                   redis, hasSkopt, batch>>

\* a trim that keeps the oldest records
Trimmed_KeepsOldest(t) ==
    IF Len(t) > TRACE_CAP THEN SubSeq(t, 1, TRACE_KEEP) ELSE t

\* lines 358 and 416: if len(trace) > 500: del trace[:-400]
Trimmed(t) ==
    IF Len(t) > TRACE_CAP THEN SubSeq(t, Len(t) - TRACE_KEEP + 1, Len(t)) ELSE t
SlotTrim(r, i) ==
    /\ i \in DOMAIN bo[r].slots
    /\ bo[r].slots[i].pc = "trim"
    /\ bo' = UpdRun(r, [bo[r] EXCEPT !.trace = Trimmed(@), !.slots[i].pc = "update"])
    /\ UNCHANGED <<cascadeVars, sweep, hasSkopt, batch>>

\* a comparison that also replaces best on a tie
BetterThan_OrEqual(obj, best) == FLeq(obj, best.objective)
\* no comparison: best is the latest record
BetterThan_Always(obj, best) == TRUE

\* lines 359-360 and 417-418: best is replaced under a strict less-than
BetterThan(obj, best) == FLess(obj, best.objective)
Updated(best, rec) ==
    IF BetterThan(rec.objective, best)
    THEN [objective |-> rec.objective, params |-> rec.params, result |-> rec.result]
    ELSE best
\* ... and _sync_obj returns to gp_minimize, or sample_once ends
SlotUpdate(r, i) ==
    /\ i \in DOMAIN bo[r].slots
    /\ bo[r].slots[i].pc = "update"
    /\ bo' = UpdRun(r,
                IF hasSkopt
                THEN [bo[r] EXCEPT !.best = Updated(@, bo[r].slots[i].rec),
                                   !.slots = <<>>, !.remain = @ - 1]
                ELSE [bo[r] EXCEPT !.best = Updated(@, bo[r].slots[i].rec),
                                   !.slots[i].pc = "done"])
    /\ UNCHANGED <<cascadeVars, sweep, hasSkopt, batch>>

\* gp_minimize has made its n_calls calls and returns: the worker is free
DriverReturn(r) ==
    /\ bo[r].pc = "driving"
    /\ bo[r].remain = 0
    /\ bo[r].slots = <<>>
    /\ running' = running \ {DriverItem(r)}
    /\ bo' = UpdRun(r, [bo[r] EXCEPT !.pc = "returned"])
    /\ UNCHANGED <<now, workers, maxItems, sim, lru, calls, queue, nextId, sweep, evicted,
                   redis, hasSkopt, batch>>

\* line 423-424: gather returns once every sample_once of the batch ended
BatchDone(r) ==
    /\ bo[r].pc = "batching"
    /\ bo[r].slots # <<>>
    /\ \A i \in DOMAIN bo[r].slots : bo[r].slots[i].pc = "done"
    /\ ~LoopHeld
    /\ bo' = UpdRun(r, [bo[r] EXCEPT !.remain = @ - Len(bo[r].slots), !.slots = <<>>])
    /\ UNCHANGED <<cascadeVars, sweep, hasSkopt, batch>>

\* a truncation that keeps the oldest records
LastN_Oldest(t, n) == IF Len(t) > n THEN SubSeq(t, 1, n) ELSE t

\* lines 425-436: the payload and the persisted document (file is its
\* trace_full); trace[-200:] is the last 200 records, or all if fewer
LastN(t, n) == IF Len(t) > n THEN SubSeq(t, Len(t) - n + 1, Len(t)) ELSE t
BoFinish(r) ==
    /\ \/ bo[r].pc = "returned"
       \/ bo[r].pc = "batching" /\ bo[r].remain = 0 /\ bo[r].slots = <<>>
    /\ ~LoopHeld
    /\ bo' = UpdRun(r, [bo[r] EXCEPT
                !.pc = "done",
                !.payload = [best |-> bo[r].best, trace_count |-> Len(bo[r].trace),
                             trace |-> LastN(bo[r].trace, PAYLOAD_TRACE)],
                !.file = bo[r].trace])
    /\ UNCHANGED <<cascadeVars, sweep, hasSkopt, batch>>

(***************************************************************************)
(* SpecCache: plogic_cascade calls over the shared cache and worker pool.  *)
(* SpecSweep: one plogic_sweep_parallel call.                              *)
(***************************************************************************)
vars == <<now, workers, maxItems, sim, lru, calls, queue, running, nextId, sweep, evicted,
          redis, hasSkopt, batch, bo>>

InitCommon ==
    /\ now = 0
    /\ workers \in 1..MaxWorkers
    /\ lru = <<>>
    /\ calls = <<>>
    /\ queue = <<>>
    /\ running = {}
    /\ nextId = 1
    /\ sweep = IdleSweep
    /\ evicted = {}
    /\ redis = NoRedis
    /\ bo = [r \in Runs |-> IdleRun]

\* the simulator may answer any call in any way (a stub that changes its
\* behaviour between invocations included)
InitCache ==
    /\ InitCommon
    /\ maxItems = MaxItems
    /\ hasSkopt = FALSE
    /\ batch = 1
    /\ sim = [p \in Points |-> SimOutcomes]

NextCache ==
    \/ \E kw \in Kwargs : Call(kw)
    \/ WorkerPick
    \/ \E c \in CallIds : Submit(c)
    \/ \E c \in CallIds : WorkerDone(c)
    \/ \E c \in CallIds : JobFinish(c)
    \/ \E c \in CallIds : WrapperReturn(c)
    \/ \E c \in CallIds : CascadeTimeout(c)
    \/ \E c \in CallIds : CancelItem(c)
    \/ \E c \in CallIds : TimeoutRaise(c)
    \/ \E d \in TickSteps : Tick(d)

SpecCache == InitCache /\ [][NextCache]_vars

\* the simulator is a function of its arguments
InitSweep ==
    /\ InitCommon
    /\ maxItems = CACHE_MAX_ITEMS
    /\ hasSkopt = FALSE
    /\ batch = 1
    /\ sim \in [Points -> {{o} : o \in SimOutcomes}]

NextSweep ==
    \/ \E cfgs \in SweepConfigs : SweepStart(cfgs)
    \/ SweepEnter
    \/ WorkerPick
    \/ \E c \in CallIds : Submit(c)
    \/ \E c \in CallIds : WorkerDone(c)
    \/ \E c \in CallIds : JobFinish(c)
    \/ \E c \in CallIds : WrapperReturn(c)
    \/ \E c \in CallIds : CascadeTimeout(c)
    \/ \E c \in CallIds : CancelItem(c)
    \/ \E c \in CallIds : TimeoutRaise(c)
    \/ Tick(30)
    \/ SweepFinish

SpecSweep == InitSweep /\ [][NextSweep]_vars

(***************************************************************************)
(* SpecBO: one optimization run of a few evaluations over a cache that     *)
(* earlier plogic_cascade calls may have filled.                           *)
(***************************************************************************)
\* the simulator is a function of its arguments and answers in time
\* the inputs of the optimization specifications: a point drawn again and
\* again, the margin weight, two ways the simulator answers, and the
\* simulators built from them (all points alike, or RingPoint apart)
RingPoint == CHOOSE p \in Points : \A q \in Points : p <= q
RingWeight == CHOOSE w \in Weights : \A v \in Weights : v <= w
OutcomeA == [kind |-> "ok", out |-> [ber_estimate |-> 0, logic_margin |-> 5],
             dur |-> 30, stderr |-> "", so |-> JsonObject, csv |-> TRUE]
OutcomeB == [kind |-> "ok", out |-> [logic_margin |-> 3, power_mw |-> 3, foo |-> 1], dur |-> 30,
             stderr |-> "", so |-> JsonObject, csv |-> TRUE]

BoSims ==
    { [p \in Points |-> {OutcomeA}],
      [p \in Points |-> IF p = RingPoint THEN {OutcomeB} ELSE {OutcomeA}] }

RECURSIVE CacheOf(_, _, _)
\* the cache left by earlier plogic_cascade calls for the points of ps (a
\* sequence), each evaluated once and stored at time 0
CacheOf(ps, sm, id) ==
    IF ps = <<>> THEN <<>>
    ELSE LET o == CHOOSE x \in sm[Head(ps)] : TRUE IN
         <<[key |-> CacheKey(PlainCall(Head(ps))),
            exp |-> CACHE_TTL,
            data |-> OkResult(id, Head(ps), CascadeMetrics(o.out), o.dur)]>>
         \o CacheOf(Tail(ps), sm, id + 1)

RECURSIVE SeqOfSet(_)
SeqOfSet(S) ==
    IF S = {} THEN <<>>
    ELSE LET x == CHOOSE y \in S : \A z \in S : y <= z
         IN <<x>> \o SeqOfSet(S \ {x})

InitBO ==
    /\ now = 0
    /\ maxItems = CACHE_MAX_ITEMS
    /\ workers = 1
    /\ hasSkopt \in BOOLEAN
    /\ batch = MaxBatch
    /\ sim \in BoSims
    /\ \E ps \in {{}, Points} :
          /\ lru = CacheOf(SeqOfSet(ps), sim, 1)
          /\ nextId = Cardinality(ps) + 1
    /\ calls = <<>>
    /\ queue = <<>>
    /\ running = {}
    /\ sweep = IdleSweep
    /\ evicted = {}
    /\ redis = NoRedis
    /\ bo = [r \in Runs |-> IdleRun]

BatchPoints == UNION { [1..k -> Points] : k \in 1..MaxBatch }

NextBO ==
    \/ \E d \in {OBJ_TIMEOUT, CACHE_TTL} : Tick(d)
    \/ \E r \in {1}, n \in 0..MaxNCalls : BoStart(r, n, RingWeight)
    \/ DriverPick
    \/ \E r \in {1}, p \in Points : BoAsk(r, p)
    \/ \E r \in {1}, pts \in BatchPoints : BatchStart(r, pts)
    \/ \E r \in {1}, i \in 1..MaxBatch : EvalStep(r, i)
    \/ \E r \in {1}, i \in 1..MaxBatch : SetState(r, i)
    \/ \E r \in {1}, i \in 1..MaxBatch : SlotGet(r, i)
    \/ \E r \in {1}, i \in 1..MaxBatch : SlotTimeout(r, i)
    \/ \E r \in {1}, p \in Points : OrphanRun(r, p)
    \/ \E r \in {1}, i \in 1..MaxBatch : SlotTrim(r, i)
    \/ \E r \in {1}, i \in 1..MaxBatch : SlotUpdate(r, i)
    \/ \E r \in {1} : DriverReturn(r)
    \/ \E r \in {1} : BatchDone(r)
    \/ \E r \in {1} : BoFinish(r)

SpecBO == InitBO /\ [][NextBO]_vars

(***************************************************************************)
(* SpecRing: one long optimization run (n_calls above the trace cap) on a  *)
(* machine with one CPU (batches of one), in which no evaluation waits     *)
(* past its deadline.  The first RingFree points are drawn freely among    *)
(* the points the cache holds, the rest is RingPoint.  The cache holds the *)
(* results of all points or of none, stored a second before the run        *)
(* starts; the clock passes the TTL after RingTickAt evaluations.          *)
(***************************************************************************)
InitRing ==
    /\ now = 1
    /\ maxItems = CACHE_MAX_ITEMS
    /\ workers = 1
    /\ hasSkopt \in BOOLEAN
    /\ batch = 1
    /\ sim \in BoSims
    /\ \E ps \in {{}, Points} :
          /\ ps = {} => sim = [p \in Points |-> {OutcomeA}]
          /\ lru = CacheOf(SeqOfSet(ps), sim, 1)
          /\ nextId = Cardinality(ps) + 1
    /\ calls = <<>>
    /\ queue = <<>>
    /\ running = {}
    /\ sweep = IdleSweep
    /\ evicted = {}
    /\ redis = NoRedis
    /\ bo = [r \in Runs |-> IdleRun]

RingTick ==
    /\ now < CACHE_TTL
    /\ Len(bo[1].hist) = RingTickAt
    /\ bo[1].slots = <<>>
    /\ Tick(CACHE_TTL)

RingDraw(p) ==
    /\ \/ p = RingPoint
       \/ Len(bo[1].hist) < RingFree /\ CacheKey(EvalKwargs(p)) \in Keys(lru)
    /\ Len(bo[1].hist) >= RingTickAt => now > CACHE_TTL

RingAsk(p) == RingDraw(p) /\ BoAsk(1, p)

RingBatch(pts) == (\A i \in DOMAIN pts : RingDraw(pts[i])) /\ BatchStart(1, pts)

NextRing ==
    \/ RingTick
    \/ BoStart(1, RingCalls, RingWeight)
    \/ DriverPick
    \/ \E p \in Points : RingAsk(p)
    \/ \E pts \in BatchPoints : RingBatch(pts)
    \/ \E i \in 1..MaxBatch : EvalStep(1, i)
    \/ \E i \in 1..MaxBatch : SetState(1, i)
    \/ \E i \in 1..MaxBatch : SlotGet(1, i)
    \/ \E i \in 1..MaxBatch : SlotTrim(1, i)
    \/ \E i \in 1..MaxBatch : SlotUpdate(1, i)
    \/ DriverReturn(1)
    \/ BatchDone(1)
    \/ BoFinish(1)

SpecRing == InitRing /\ [][NextRing]_vars

(***************************************************************************)
(* SpecRuns: concurrent optimization runs, each of RunsCalls evaluations   *)
(* of RingPoint.                                                           *)
(***************************************************************************)
InitRuns ==
    /\ now = 0
    /\ maxItems = CACHE_MAX_ITEMS
    /\ workers = MaxWorkers
    /\ hasSkopt \in BOOLEAN
    /\ batch = MaxBatch
    /\ sim = [p \in Points |-> {OutcomeA}]
    /\ \E ps \in {{}, Points} :
          /\ lru = CacheOf(SeqOfSet(ps), sim, 1)
          /\ nextId = Cardinality(ps) + 1
    /\ calls = <<>>
    /\ queue = <<>>
    /\ running = {}
    /\ sweep = IdleSweep
    /\ evicted = {}
    /\ redis = NoRedis
    /\ bo = [r \in Runs |-> IdleRun]

\* n_calls of each run: one full batch and one more evaluation
RunsCalls == MaxBatch + 1

RunsBatch(r, pts) == (\A i \in DOMAIN pts : pts[i] = RingPoint) /\ BatchStart(r, pts)

NextRuns ==
    \/ \E r \in Runs : BoStart(r, RunsCalls, RingWeight)
    \/ DriverPick
    \/ \E r \in Runs : BoAsk(r, RingPoint)
    \/ \E r \in Runs, pts \in BatchPoints : RunsBatch(r, pts)
    \/ \E r \in Runs, i \in 1..MaxBatch : EvalStep(r, i)
    \/ \E r \in Runs, i \in 1..MaxBatch : SetState(r, i)
    \/ \E r \in Runs, i \in 1..MaxBatch : SlotGet(r, i)
    \/ \E r \in Runs, i \in 1..MaxBatch : SlotTrim(r, i)
    \/ \E r \in Runs, i \in 1..MaxBatch : SlotUpdate(r, i)
    \/ \E r \in Runs : DriverReturn(r)
    \/ \E r \in Runs : BatchDone(r)
    \/ \E r \in Runs : BoFinish(r)

SpecRuns == InitRuns /\ [][NextRuns]_vars

(***************************************************************************)
(* Claims.                                                                 *)
(***************************************************************************)
\* the calls that had completed a fresh, successful evaluation of the same
\* parameters when call c was made
FreshBefore(c) ==
    { a \in calls[c].after :
        /\ calls[a].res.kind = "ok"
        /\ ~calls[a].hit
        /\ calls[a].kw.pt = calls[c].kw.pt }
\* the one of them that completed last: whose result was stored last
LatestFresh(c) ==
    CHOOSE a \in FreshBefore(c) :
        \A b \in FreshBefore(c) : calls[b].ord <= calls[a].ord

\* C1 as stated: after a plogic_cascade call has completed successfully,
\* every later call with identical parameters made before the TTL has
\* elapsed is served from the cache without entering _run_cli and returns
\* that first call's result.
C1_Original ==
    \A c \in DOMAIN calls : \A a \in FreshBefore(c) :
        calls[c].t0 < calls[a].tdone + CACHE_TTL
            => /\ calls[c].hit
               /\ ~calls[c].invoked
               /\ calls[c].res = calls[a].res

\* C1 amended: a later call with identical parameters, made before the TTL
\* has elapsed since the most recent fresh evaluation of those parameters
\* completed and while the capacity bound has not dropped the entry, is
\* served without entering _run_cli and returns the result of that most
\* recent fresh evaluation.
C1_CacheServesLatestFresh ==
    \A c \in DOMAIN calls :
        (/\ FreshBefore(c) # {}
         /\ ~calls[c].lost
         /\ calls[c].t0 < calls[LatestFresh(c)].tdone + CACHE_TTL)
            => /\ calls[c].pc = "done"
               /\ calls[c].hit
               /\ ~calls[c].invoked
               /\ calls[c].res = calls[LatestFresh(c)].res

\* a call served the result of the later of two overlapping evaluations of
\* its parameters, long after both completed
C1_Witness ==
    \E c \in DOMAIN calls :
        /\ calls[c].hit
        /\ Cardinality(FreshBefore(c)) = 2
        /\ calls[c].res = calls[LatestFresh(c)].res
        /\ calls[c].t0 > calls[LatestFresh(c)].tdone + CASCADE_TIMEOUT

\* a later call missed although a fresh evaluation of its parameters had
\* completed within the TTL: the capacity bound had dropped the entry
C1_EvictionReached ==
    \E c \in DOMAIN calls :
        /\ FreshBefore(c) # {}
        /\ calls[c].lost
        /\ ~calls[c].hit
        /\ calls[c].t0 < calls[LatestFresh(c)].tdone + CACHE_TTL

\* whether the simulator, run for the parameters p, exits zero within d
SimOkWithin(p, d) == \A o \in sim[p] : o.kind = "ok" /\ o.dur <= d
SimOutcomeOf(p) == CHOOSE o \in sim[p] : TRUE

\* C2: for every point whose simulator invocation exits zero within its
\* deadline, the objective an optimization run records is
\* ber_estimate - objective_margin_weight * logic_margin (with the defaults
\* 1.0 and 0.0 for a missing metric), and the record carries the result.
\* Records of evaluations the bridge itself gave up on are left aside.
C2_ObjectiveRecorded ==
    \A r \in Runs : \A k \in DOMAIN bo[r].hist :
        LET rec == bo[r].hist[k] IN
        (/\ SimOkWithin(rec.params, CASCADE_TIMEOUT)
         /\ ~(rec.result.kind = "error" /\ rec.result.msg = TimeoutText))
            => /\ rec.result.kind = "ok"
               /\ rec.objective =
                    Fin(Objective(CascadeMetrics(SimOutcomeOf(rec.params).out), bo[r].w))

\* C3: every request whose own simulator run would finish in time
\* completes successfully, whatever the number of concurrent requests
\* relative to the size of the worker pool.
C3_InTimeSucceeds ==
    \A c \in DOMAIN calls :
        (/\ calls[c].pc = "done"
         /\ BindsSignature(calls[c].kw)
         /\ SimOkWithin(calls[c].kw.pt, CASCADE_TIMEOUT))
            => calls[c].res.kind = "ok"

\* the configs of the sweep whose call ended well, and the others
SweepOkIdx == { i \in DOMAIN sweep.ids : calls[sweep.ids[i]].res.kind = "ok" }
SweepErrIdx == DOMAIN sweep.ids \ SweepOkIdx
Rank(S, i) == Cardinality({ j \in S : j <= i })

\* C4: the payload of a sweep over n configs has count_ok + count_error = n,
\* count_ok = len(results), count_error = len(errors); every config appears
\* exactly once across results and errors, and each list follows the input
\* order.
C4_SweepComplete ==
    sweep.pc = "done" =>
        LET P == sweep.payload IN
        /\ P.count_ok + P.count_error = Len(sweep.configs)
        /\ P.count_ok = Len(P.results)
        /\ P.count_error = Len(P.errors)
        /\ Len(P.results) = Cardinality(SweepOkIdx)
        /\ Len(P.errors) = Cardinality(SweepErrIdx)
        /\ \A i \in SweepOkIdx :
              /\ Rank(SweepOkIdx, i) \in DOMAIN P.results
              /\ P.results[Rank(SweepOkIdx, i)] = calls[sweep.ids[i]].res
              /\ P.results[Rank(SweepOkIdx, i)].pt = sweep.configs[i].pt
        /\ \A i \in SweepErrIdx :
              /\ Rank(SweepErrIdx, i) \in DOMAIN P.errors
              /\ P.errors[Rank(SweepErrIdx, i)].config = sweep.configs[i]

\* a sweep of two different configs that both succeeded
C4_Witness ==
    /\ sweep.pc = "done"
    /\ sweep.payload.count_ok = 2
    /\ sweep.configs[1].pt # sweep.configs[2].pt
    /\ sweep.payload.results[1].pt = sweep.configs[1].pt

\* C5: a sweep never fails fast: it returns only when every config has
\* ended; each config that raised (timeout, non-zero exit, bad keyword)
\* has an error record with its error text, type and config, and the
\* result of every config that succeeded is among the results.
C5_NoFailFast ==
    sweep.pc = "done" =>
        \A i \in DOMAIN sweep.ids :
            LET c == calls[sweep.ids[i]]
                P == sweep.payload
            IN /\ c.pc = "done"
               /\ c.res.kind = "ok" => \E k \in DOMAIN P.results : P.results[k] = c.res
               /\ c.res.kind # "ok" =>
                     \E k \in DOMAIN P.errors :
                        P.errors[k] = [error |-> c.res.msg, type |-> c.res.etype,
                                       config |-> sweep.configs[i]]
               /\ c.res.kind # "ok" => c.res.kind = "error" /\ c.res.etype # ""

\* a sweep whose first config timed out and whose second config succeeded
C5_Witness ==
    /\ sweep.pc = "done"
    /\ Len(sweep.configs) = 2
    /\ calls[sweep.ids[1]].res.msg = "Cascade simulation timed out"
    /\ sweep.payload.count_ok = 1
    /\ sweep.payload.results[1] = calls[sweep.ids[2]].res

\* the evaluations of run r that stand between append and the update of best
MidMutation(r) == { i \in DOMAIN bo[r].slots : bo[r].slots[i].pc \in {"trim", "update"} }

\* C6 (state part): _sync_obj never raises to the optimizer; when the
\* evaluation failed or ran out of time it has, no later than the deadline,
\* appended one failed record with an infinite objective, the error text
\* (that of the evaluation's exception when the thread was given it, the
\* empty text of the TimeoutError otherwise) and the point's params, and
\* best is as it was when the call began.
C6_FailedRecord ==
    \A r \in Runs :
        /\ bo[r].pc # "crashed"
        /\ hasSkopt =>
             \A i \in DOMAIN bo[r].slots :
                LET sl == bo[r].slots[i] IN
                (sl.pc \in {"trim", "update"} /\ sl.failed) =>
                    /\ now <= sl.dl
                    /\ sl.rec.objective = FInf
                    /\ sl.rec.params = sl.pt
                    /\ sl.rec.result =
                          ErrResult(sl.pt, "", IF sl.fut.state = "set" THEN sl.fut.msg
                                               ELSE TimeoutText)
                    /\ bo[r].hist[Len(bo[r].hist)] = sl.rec
                    /\ bo[r].trace[Len(bo[r].trace)] = sl.rec
                    /\ bo[r].best = sl.bestIn

\* C6 (step part): one call of _sync_obj appends exactly one record, and
\* the return of a failed call leaves best unchanged.
C6_Step ==
    \A r \in Runs :
        hasSkopt =>
            /\ Len(bo'[r].hist) \in {Len(bo[r].hist), Len(bo[r].hist) + 1}
            /\ Len(bo'[r].hist) = Len(bo[r].hist) + 1 =>
                  /\ bo[r].slots # <<>>
                  /\ bo[r].slots[1].pc = "wait"
                  /\ bo'[r].slots[1].pc = "trim"
            /\ (bo[r].slots # <<>> /\ bo[r].slots[1].failed) => bo'[r].best = bo[r].best

\* C6: the synchronous objective never raises, returns an infinite
\* objective by the deadline when the evaluation failed or timed out,
\* appends exactly one failed record and leaves best unchanged.
C6_SyncObjContained == [](C6_FailedRecord) /\ [][C6_Step]_vars

\* the bridge gave up at the deadline in a run whose best was already finite
C6_Witness ==
    \E r \in Runs :
        /\ hasSkopt
        /\ bo[r].slots # <<>>
        /\ bo[r].slots[1].pc = "update"
        /\ bo[r].slots[1].failed
        /\ bo[r].slots[1].rec.result.msg = TimeoutText
        /\ now = bo[r].slots[1].dl
        /\ bo[r].best.objective # FInf

\* C7 (state part): within a run at most one evaluation stands between its
\* append and its update of best; with the model-based strategy one
\* _sync_obj call is in progress at a time.
C7_OneWriter ==
    \A r \in Runs :
        /\ Cardinality(MidMutation(r)) <= 1
        /\ hasSkopt => Len(bo[r].slots) <= 1

\* C7 (step part): trace and best of a run change only in a step of one of
\* the run's own evaluations, no other evaluation of the run is then between
\* its append and its update, and the step leaves every other run as it was.
C7_Step ==
    \A r \in Runs :
        (bo'[r].trace # bo[r].trace \/ bo'[r].best # bo[r].best) =>
            /\ \E i \in DOMAIN bo[r].slots :
                  /\ bo[r].slots[i].pc \in {"wait", "trim", "update"}
                  /\ \A j \in MidMutation(r) : j = i
            /\ \A q \in Runs \ {r} : bo'[q] = bo[q]

\* C7: no race on best and trace; concurrent runs share no optimization
\* state.
C7_NoRace == [](C7_OneWriter) /\ [][C7_Step]_vars

\* two fallback runs in flight at once, one between append and update while
\* the other has a batch of two waiting
C7_Witness ==
    /\ ~hasSkopt
    /\ \E r \in Runs, q \in Runs :
          /\ r # q
          /\ MidMutation(r) # {}
          /\ Len(bo[r].slots) = 2
          /\ Len(bo[q].slots) = 2
          /\ Len(bo[q].hist) = 0

\* whether b is the best of the records h: the initial value when none is
\* finite, else objective, params and result of the earliest record that
\* attains the minimum
BestOf(h, b) ==
    IF \A k \in DOMAIN h : h[k].objective.inf THEN b = InitBest
    ELSE \E k \in DOMAIN h :
            /\ b = [objective |-> h[k].objective, params |-> h[k].params,
                    result |-> h[k].result]
            /\ ~h[k].objective.inf
            /\ \A j \in DOMAIN h :
                  /\ FLeq(h[k].objective, h[j].objective)
                  /\ j < k => FLess(h[k].objective, h[j].objective)

\* C8: best.objective is the minimum objective over all points the run
\* evaluated (those trimmed from trace included), params and result are
\* those of the earliest point attaining it, and best keeps its initial
\* value when no point produced a finite objective; this holds between
\* evaluations and so at the end of the run, whose payload carries it.
C8_BestIsEarliestMin ==
    \A r \in Runs :
        /\ MidMutation(r) = {} => BestOf(bo[r].hist, bo[r].best)
        /\ bo[r].pc = "done" =>
              /\ Len(bo[r].hist) = bo[r].n_calls
              /\ bo[r].payload.best = bo[r].best

\* a finished model-based run whose first two points tied at a finite
\* objective and were trimmed from trace, with only failed records left
C8_Witness ==
    \E r \in Runs :
        /\ bo[r].pc = "done"
        /\ hasSkopt
        /\ Len(bo[r].hist) > TRACE_CAP
        /\ bo[r].hist[1].params # bo[r].hist[2].params
        /\ bo[r].hist[1].objective = bo[r].hist[2].objective
        /\ bo[r].best.params = bo[r].hist[1].params
        /\ bo[r].best.objective # FInf
        /\ \A k \in DOMAIN bo[r].trace : bo[r].trace[k].objective = FInf

\* C9 (state part): between evaluations best.objective is at most the
\* objective of the record appended last.
C9_AtMostLast ==
    \A r \in Runs :
        (MidMutation(r) = {} /\ bo[r].hist # <<>>) =>
            FLeq(bo[r].best.objective, bo[r].hist[Len(bo[r].hist)].objective)

\* C9 (step part): best.objective never increases.
C9_Step == \A r \in Runs : FLeq(bo'[r].best.objective, bo[r].best.objective)

\* C9: over the evaluations of a run best.objective is non-increasing, and
\* after each evaluation it is at most the objective just appended.
C9_BestMonotone == [](C9_AtMostLast) /\ [][C9_Step]_vars

\* a run that kept the best of its first point over a later, worse one and
\* over a failed one
C9_Witness ==
    \E r \in Runs :
        /\ Len(bo[r].hist) = RingTickAt + 1
        /\ MidMutation(r) = {}
        /\ ~bo[r].hist[1].objective.inf
        /\ ~bo[r].hist[2].objective.inf
        /\ bo[r].hist[1].objective.v < bo[r].hist[2].objective.v
        /\ bo[r].hist[RingTickAt + 1].objective = FInf
        /\ bo[r].best.objective = bo[r].hist[1].objective

\* the length of a trace that received k records
RingLen(k) ==
    IF k <= TRACE_CAP THEN k
    ELSE TRACE_KEEP + ((k - TRACE_CAP - 1) % (TRACE_CAP - TRACE_KEEP + 1))

\* C10: after each evaluation trace holds at most 500 records; when it
\* exceeds 500 it is cut to the most recent 400, in their order; this holds
\* for both strategies.
C10_RingBuffer ==
    \A r \in Runs :
        LET h == bo[r].hist
            t == bo[r].trace
            appended == \E i \in DOMAIN bo[r].slots : bo[r].slots[i].pc = "trim"
        IN /\ Len(t) <= Len(h)
           /\ t = SubSeq(h, Len(h) - Len(t) + 1, Len(h))
           /\ ~appended => Len(t) <= TRACE_CAP /\ Len(t) = RingLen(Len(h))
           /\ appended => Len(t) <= TRACE_CAP + 1

\* a fallback run just after the cut: 501 records appended, 400 kept
C10_Witness ==
    \E r \in Runs :
        /\ ~hasSkopt
        /\ Len(bo[r].hist) = TRACE_CAP + 1
        /\ Len(bo[r].trace) = TRACE_KEEP
        /\ bo[r].trace[1] = bo[r].hist[TRACE_CAP - TRACE_KEEP + 2]

\* C11: trace_count in the payload plogic_bo_run returns equals the number
\* of objective evaluations the run performed (n_calls), also when that
\* number is above the trace cap of 500.
C11_TraceCountIsTotal ==
    \A r \in Runs :
        bo[r].pc = "done" =>
            /\ bo[r].payload.trace_count = Len(bo[r].hist)
            /\ bo[r].payload.trace_count = bo[r].n_calls

(***************************************************************************)
(* SpecKey: plogic_cascade calls that pass their parameters in any of the  *)
(* call forms, against a simulator that always succeeds.                   *)
(***************************************************************************)
InitKey ==
    /\ InitCommon
    /\ maxItems = CACHE_MAX_ITEMS
    /\ hasSkopt = FALSE
    /\ batch = 1
    /\ sim = [p \in Points \cup {NullN2} |-> {OutcomeA}]

NextKey ==
    \/ \E kw \in FormKwargs : Call(kw)
    \/ WorkerPick
    \/ \E c \in CallIds : Submit(c)
    \/ \E c \in CallIds : WorkerDone(c)
    \/ \E c \in CallIds : JobFinish(c)
    \/ \E c \in CallIds : WrapperReturn(c)
    \/ \E c \in CallIds : CascadeTimeout(c)
    \/ \E c \in CallIds : CancelItem(c)
    \/ \E c \in CallIds : TimeoutRaise(c)
    \/ Tick(30)

SpecKey == InitKey /\ [][NextKey]_vars

\* two calls are semantically equal: both bind, to the same parameter values
SameParams(k1, k2) ==
    /\ BindsSignature(k1) /\ BindsSignature(k2)
    /\ BoundParams(PyCall(k1)) = BoundParams(PyCall(k2))

\* C12: any two plogic_cascade calls with semantically equal parameters
\* (another keyword order, a default omitted or passed explicitly,
\* positional or keyword passing) derive the same cache key.
C12_KeyDeterminism ==
    \A c1, c2 \in DOMAIN calls :
        SameParams(calls[c1].kw, calls[c2].kw)
            => CacheKey(calls[c1].kw) = CacheKey(calls[c2].kw)

\* the part of C12 that holds: the keyword order does not enter the key
C12_KeywordOrderFree ==
    \A c1, c2 \in DOMAIN calls :
        (/\ calls[c1].kw.pt = calls[c2].kw.pt
         /\ {calls[c1].kw.form, calls[c2].kw.form} \subseteq {"kw", "kwrev"})
            => CacheKey(calls[c1].kw) = CacheKey(calls[c2].kw)

\* what the positional form leads to: a call is served a result that was
\* computed for other parameter values
C12_ServedOwnParams ==
    \A c \in DOMAIN calls :
        (calls[c].pc = "done" /\ calls[c].res.kind = "ok")
            => calls[c].res.pt = calls[c].kw.pt

(***************************************************************************)
(* SpecClone: plogic_cascade calls over the in-process cache whose callers *)
(* may change the result they were handed.                                 *)
(***************************************************************************)
\* The caller of call c clears the metrics of the dict it was handed
\* (res["metrics"].clear()).  wrapper stores and returns the dict _impl
\* built (lines 203-204) and a hit returns the stored dict itself (lines
\* 196-197), so as long as the entry is in _LRU that dict is the entry's.
Mutate(c) ==
    /\ c \in DOMAIN calls
    /\ calls[c].pc = "done"
    /\ calls[c].res.kind = "ok"
    /\ ~LoopHeld
    /\ \E i \in DOMAIN lru :
          /\ lru[i].data.run_id = calls[c].res.run_id
          /\ lru[i].data.metrics # NoMetrics
          /\ lru' = [lru EXCEPT ![i].data.metrics = NoMetrics]
    /\ UNCHANGED <<now, workers, maxItems, sim, calls, queue, running, nextId, sweep,
                   evicted, redis, hasSkopt, batch, bo>>

NextClone ==
    \/ \E p \in Points : Call(PlainCall(p))
    \/ WorkerPick
    \/ \E c \in CallIds : Submit(c)
    \/ \E c \in CallIds : WorkerDone(c)
    \/ \E c \in CallIds : JobFinish(c)
    \/ \E c \in CallIds : WrapperReturn(c)
    \/ \E c \in CallIds : CascadeTimeout(c)
    \/ \E c \in CallIds : CancelItem(c)
    \/ \E c \in CallIds : TimeoutRaise(c)
    \/ \E c \in CallIds : Mutate(c)
    \/ Tick(30)

SpecClone == InitKey /\ [][NextClone]_vars

\* C13: the value a cache hit returns equals the value the fresh evaluation
\* originally returned, whatever a caller has done since to a result it
\* was handed.
C13_HitServesOriginal ==
    \A c \in DOMAIN calls :
        calls[c].hit =>
            \E c0 \in DOMAIN calls :
                /\ ~calls[c0].hit
                /\ calls[c0].res.kind = "ok"
                /\ calls[c0].res = calls[c].res

\* the work items waiting in the executor's queue
Queued(q) == {q[i] : i \in DOMAIN q}

\* a call made while the cache holds an entry for its key that is past its
\* expiry is not served from the cache: the entry is dropped and the call
\* goes on to the evaluation
C14_ExpiredMisses ==
    LET c == Len(calls) + 1 IN
    (Len(calls') = c) =>
        LET k == CacheKey(calls'[c].kw)
            i == IndexOf(lru, k, 1)
        IN (i # 0 /\ lru[i].exp < now) =>
              /\ ~calls'[c].hit
              /\ k \notin Keys(lru')
              /\ BindsSignature(calls'[c].kw) => calls'[c].pc = "started"

\* a call that missed is handed to the Process Runner before any time
\* passes: the next step it takes puts its work item in the executor's queue
C14_MissHanded ==
    \A c \in DOMAIN calls :
        calls[c].pc = "started" =>
            /\ now' = now
            /\ \/ calls'[c] = calls[c] /\ CliItem(c) \notin Queued(queue')
               \/ calls'[c].pc = "waiting" /\ CliItem(c) \in Queued(queue')

\* a call that missed and whose simulator run succeeds returns a result
\* with a run_id of its own, which is then the entry of its key, good for
\* another TTL
C14_FreshReplaces ==
    \A c \in DOMAIN calls :
        (calls[c].pc # "done" /\ calls'[c].pc = "done" /\ calls'[c].res.kind = "ok") =>
            LET k == CacheKey(calls[c].kw)
                i == IndexOf(lru', k, 1)
            IN /\ calls[c].invoked
               /\ \A d \in DOMAIN calls \ {c} : calls[d].res.run_id # calls'[c].res.run_id
               /\ \A j \in DOMAIN lru : lru[j].data.run_id # calls'[c].res.run_id
               /\ i # 0
               /\ lru'[i].data = calls'[c].res
               /\ lru'[i].exp = now + CACHE_TTL

\* C14: once more than the TTL of 1800 s has passed since a result was
\* stored, a repeated call with the same parameters is a miss that is
\* handed to the Process Runner, and the fresh result it returns replaces
\* the expired entry.
C14_TTLExpiry == [][C14_ExpiredMisses /\ C14_MissHanded /\ C14_FreshReplaces]_vars

\* a call made more than the TTL after an earlier successful call with the
\* same parameters completed has run the simulator again, and its result
\* is now the cached one
C14_Witness ==
    \E c2 \in DOMAIN calls : \E c1 \in calls[c2].after :
        /\ CacheKey(calls[c1].kw) = CacheKey(calls[c2].kw)
        /\ calls[c1].res.kind = "ok" /\ ~calls[c1].hit
        /\ calls[c1].tdone + CACHE_TTL < calls[c2].t0
        /\ calls[c2].pc = "done" /\ calls[c2].res.kind = "ok"
        /\ ~calls[c2].hit /\ calls[c2].invoked
        /\ calls[c2].res.run_id # calls[c1].res.run_id
        /\ \E i \in DOMAIN lru : lru[i].data = calls[c2].res

(***************************************************************************)
(* SpecRedis: plogic_cascade calls with the distributed store configured;  *)
(* the store may become unreachable and reachable again at any moment.     *)
(***************************************************************************)
InitRedis ==
    /\ now = 0
    /\ maxItems = CACHE_MAX_ITEMS
    /\ workers \in 1..MaxWorkers
    /\ sim = [p \in Points |-> {OutcomeA}]
    /\ lru = <<>>
    /\ calls = <<>>
    /\ queue = <<>>
    /\ running = {}
    /\ nextId = 1
    /\ sweep = IdleSweep
    /\ evicted = {}
    /\ redis \in [mode : {"up", "down"}, store : {{}}]
    /\ hasSkopt = FALSE
    /\ batch = 1
    /\ bo = [r \in Runs |-> IdleRun]

RedisFlip ==
    /\ ~LoopHeld
    /\ redis' = [redis EXCEPT !.mode = IF @ = "up" THEN "down" ELSE "up"]
    /\ UNCHANGED <<now, workers, maxItems, sim, lru, calls, queue, running, nextId, sweep,
                   evicted, hasSkopt, batch, bo>>

NextRedis ==
    \/ \E p \in Points : Call(PlainCall(p))
    \/ WorkerPick
    \/ \E c \in CallIds : Submit(c)
    \/ \E c \in CallIds : WorkerDone(c)
    \/ \E c \in CallIds : JobFinish(c)
    \/ \E c \in CallIds : WrapperReturn(c)
    \/ \E c \in CallIds : CascadeTimeout(c)
    \/ \E c \in CallIds : CancelItem(c)
    \/ \E c \in CallIds : TimeoutRaise(c)
    \/ RedisFlip
    \/ Tick(30)

SpecRedis == InitRedis /\ [][NextRedis]_vars

\* C15: a failure of the distributed store is never surfaced: a call made
\* while the store is configured but failing still returns the evaluation
\* result.
C15_StoreFailureHidden ==
    \A c \in DOMAIN calls :
        calls[c].pc = "done" => calls[c].res.etype # "ConnectionError"

\* C16: every plogic_cascade call has returned or raised by CASCADE_TIMEOUT
\* after it was called; one that had not completed by then failed at the
\* deadline with the timeout error, and the error counter was incremented
\* exactly once for it.
C16_Deadline ==
    \A c \in DOMAIN calls :
        /\ calls[c].pc # "done" => now <= calls[c].t0 + CASCADE_TIMEOUT
        /\ calls[c].pc = "done" =>
              /\ calls[c].tdone <= calls[c].t0 + CASCADE_TIMEOUT
              /\ calls[c].timedOut =>
                    /\ calls[c].tdone = calls[c].t0 + CASCADE_TIMEOUT
                    /\ calls[c].res.kind = "error"
                    /\ calls[c].res.etype = "RuntimeError"
                    /\ calls[c].res.msg = "Cascade simulation timed out"
                    /\ calls[c].errs = 1

\* a call whose simulator never exits, and one that never got a worker,
\* both ended by the deadline, the clock now past it
C16_Witness ==
    \E c1, c2 \in DOMAIN calls :
        /\ calls[c1].timedOut /\ calls[c1].invoked
        /\ calls[c1].job.outcome.kind = "hang"
        /\ calls[c2].timedOut /\ ~calls[c2].invoked
        /\ now > calls[c1].t0 + CASCADE_TIMEOUT
        /\ now > calls[c2].t0 + CASCADE_TIMEOUT

\* C17: every Process Runner invocation is bounded by its stage timeout:
\* once the deadline of the call that started it has passed, the
\* subprocess wait is over and its worker thread is free.
C17_RunnerBounded ==
    \A c \in DOMAIN calls :
        now > calls[c].t0 + CASCADE_TIMEOUT => CliItem(c) \notin running

\* the sweep's error record of the config at index i
SweepErrorOf(i) == sweep.payload.errors[Rank(SweepErrIdx, i)]

\* C18: a timeout is reported as an error of another kind than a
\* simulation failure: the exception type of a timed-out call, and the
\* 'type' field of its sweep error record, differ from those of a call
\* whose simulator exited non-zero.
C18_TimeoutDistinguishable ==
    /\ \A c1, c2 \in DOMAIN calls :
          (/\ calls[c1].pc = "done" /\ calls[c1].timedOut
           /\ calls[c2].pc = "done" /\ ~calls[c2].timedOut
           /\ calls[c2].job.outcome.kind = "fail" /\ calls[c2].res.kind = "error")
              => calls[c1].res.etype # calls[c2].res.etype
    /\ sweep.pc = "done" =>
          \A i, j \in SweepErrIdx :
              (/\ calls[sweep.ids[i]].timedOut
               /\ ~calls[sweep.ids[j]].timedOut
               /\ calls[sweep.ids[j]].job.outcome.kind = "fail")
                  => SweepErrorOf(i).type # SweepErrorOf(j).type

(***************************************************************************)
(* SpecOut: plogic_cascade calls for one parameter vector against a        *)
(* simulator that may print anything: stdout of every shape, and non-zero  *)
(* exits with stderr texts with and without surrounding whitespace; or     *)
(* that cannot be started at all.                                          *)
(***************************************************************************)
OutOutcomes ==
    { OutcomeA,
      [OutcomeA EXCEPT !.so.nan = TRUE],
      [OutcomeA EXCEPT !.out = NoMetrics, !.so = [JsonObject EXCEPT !.syntax = "value"]],
      [OutcomeA EXCEPT !.out = NoMetrics, !.so = [JsonObject EXCEPT !.syntax = "value", !.cap = "num"]],
      [OutcomeA EXCEPT !.out = NoMetrics, !.so = [JsonObject EXCEPT !.syntax = "value", !.cap = "bad"]],
      [OutcomeA EXCEPT !.out = NoMetrics, !.so = [JsonObject EXCEPT !.syntax = "value", !.ber = "num"]],
      [OutcomeA EXCEPT !.out = NoMetrics,
                       !.so = [JsonObject EXCEPT !.syntax = "value", !.cap = "num", !.ber = "num"]],
      [OutcomeA EXCEPT !.out = NoMetrics, !.so = [JsonObject EXCEPT !.syntax = "value", !.ber = "bad"]],
      [OutcomeA EXCEPT !.out = NoMetrics, !.so = [JsonObject EXCEPT !.syntax = "text"]],
      [OutcomeA EXCEPT !.out = NoMetrics, !.so = [JsonObject EXCEPT !.syntax = "text", !.cap = "num"]],
      [OutcomeA EXCEPT !.kind = "fail", !.out = NoMetrics, !.stderr = "boom\n"],
      [OutcomeA EXCEPT !.kind = "fail", !.out = NoMetrics, !.stderr = " \n"],
      [OutcomeA EXCEPT !.kind = "fail", !.out = NoMetrics, !.stderr = ""],
      [OutcomeA EXCEPT !.kind = "raise", !.out = NoMetrics, !.dur = 0] }

InitOut ==
    /\ InitCommon
    /\ maxItems = CACHE_MAX_ITEMS
    /\ hasSkopt = FALSE
    /\ batch = 1
    /\ sim = [p \in Points |-> OutOutcomes]

NextOut ==
    \/ Call(PlainCall(RingPoint))
    \/ WorkerPick
    \/ \E c \in CallIds : Submit(c)
    \/ \E c \in CallIds : WorkerDone(c)
    \/ \E c \in CallIds : JobFinish(c)
    \/ \E c \in CallIds : WrapperReturn(c)
    \/ \E c \in CallIds : CascadeTimeout(c)
    \/ \E c \in CallIds : CancelItem(c)
    \/ \E c \in CallIds : TimeoutRaise(c)
    \/ Tick(30)

SpecOut == InitOut /\ [][NextOut]_vars

\* the call saw its simulator run end, with an exit of the given kind
SawExit(c, kind) ==
    /\ calls[c].pc = "done"
    /\ calls[c].invoked
    /\ ~calls[c].timedOut
    /\ calls[c].job.outcome.kind = kind

\* C19: when the simulator exits non-zero the call returns no result: it
\* raises the simulation-failed error whose message is the captured
\* stderr, surrounding whitespace removed, or the fixed fallback message
\* when nothing is left, and the error counter is incremented exactly once
\* for the call; nothing is cached for it.
C19_NonZeroExit ==
    \A c \in DOMAIN calls :
        SawExit(c, "fail") =>
            LET text == Strip(calls[c].job.outcome.stderr) IN
            /\ calls[c].res.kind = "error"
            /\ calls[c].res.etype = "RuntimeError"
            /\ text # "" => calls[c].res.msg = text
            /\ text = "" => calls[c].res.msg = "plogic cascade failed"
            /\ calls[c].errs = 1
            /\ \A i \in DOMAIN lru : lru[i].data.kind = "ok"

\* one call failed with the simulator's stderr as message, another with the
\* fallback message
C19_Witness ==
    \E c1, c2 \in DOMAIN calls :
        /\ SawExit(c1, "fail") /\ SawExit(c2, "fail")
        /\ calls[c1].job.outcome.stderr = "boom\n" /\ calls[c1].res.msg = "boom"
        /\ calls[c2].job.outcome.stderr = "" /\ calls[c2].res.msg = "plogic cascade failed"
        /\ calls[c1].errs = 1 /\ calls[c2].errs = 1

\* C20: if the simulator exits zero within the deadline the call returns a
\* result whatever stdout contains; for text that is not JSON the result's
\* raw output is {raw: <text>} and its metrics map is empty.
C20_AnyStdoutReturns ==
    \A c \in DOMAIN calls :
        SawExit(c, "ok") =>
            /\ calls[c].res.kind = "ok"
            /\ calls[c].job.outcome.so.syntax = "text" =>
                  calls[c].res.raw /\ calls[c].res.metrics = NoMetrics

\* the part of C20 that holds: stdout that is not JSON comes back wrapped,
\* with an empty metrics map
C20_TextIsWrapped ==
    \A c \in DOMAIN calls :
        (SawExit(c, "ok") /\ calls[c].job.outcome.so.syntax = "text") =>
            /\ calls[c].res.kind = "ok"
            /\ calls[c].res.raw
            /\ calls[c].res.metrics = NoMetrics

\* C21: when stdout is text that is not JSON and mentions a known metric
\* ("margin: 1"), the metrics map of the result holds the value the pattern
\* extracts (logic_margin); a metric whose pattern does not match is absent,
\* and no error is raised.
C21_TextMetricsExtracted ==
    \A c \in DOMAIN calls :
        (SawExit(c, "ok") /\ calls[c].job.outcome.so.syntax = "text") =>
            /\ calls[c].res.kind = "ok"
            /\ calls[c].job.outcome.so.cap = "num" => calls[c].res.metrics = [logic_margin |-> 1]
            /\ calls[c].job.outcome.so.cap = "none" => calls[c].res.metrics = NoMetrics

\* where the patterns are applied: stdout that is JSON but no object, such
\* as the string "margin: 1 ber: 0", yields the metrics the patterns extract
C21_JsonValueExtracted ==
    \A c \in DOMAIN calls :
        (/\ SawExit(c, "ok")
         /\ calls[c].job.outcome.so.syntax = "value"
         /\ calls[c].job.outcome.so.cap # "bad"
         /\ calls[c].job.outcome.so.ber # "bad")
            => /\ calls[c].res.kind = "ok"
               /\ DOMAIN calls[c].res.metrics =
                      {"logic_margin" : x \in {1} \cap {IF calls[c].job.outcome.so.cap = "num" THEN 1 ELSE 0}}
                        \cup {"ber_estimate" : x \in {1} \cap {IF calls[c].job.outcome.so.ber = "num" THEN 1 ELSE 0}}

(***************************************************************************)
(* SpecExtra: one plogic_cascade call that passes an `extra` list, against *)
(* a simulator that exits zero at once.  The list is a single flag of up   *)
(* to MaxFlagLen characters of FlagChars, or up to MaxExtra entries of     *)
(* ExtraEntries.                                                           *)
(***************************************************************************)
FlagChars == {"-", "a", "A", "1", "=", "_", ".", " ", "\n"}
BetaFlag == <<"-", "-", "b", "e", "t", "a", "=", "3", "0", ".", "5">>
RmEntry == <<";", " ", "r", "m", " ", "-", "r", "f", " ", "/">>
ExtraEntries == {BetaFlag, RmEntry, <<"-", "-", "a">>}
ExtraLists ==
    { <<s>> : s \in UNION { [1..n -> FlagChars] : n \in 1..MaxFlagLen } }
        \cup UNION { [1..n -> ExtraEntries] : n \in 1..MaxExtra }

InitExtra ==
    /\ InitCommon
    /\ workers = 1
    /\ maxItems = CACHE_MAX_ITEMS
    /\ hasSkopt = FALSE
    /\ batch = 1
    /\ sim = [p \in Points |-> {[OutcomeA EXCEPT !.dur = 0]}]

NextExtra ==
    \/ calls = <<>> /\ \E x \in ExtraLists : Call([PlainCall(RingPoint) EXCEPT !.extra = x])
    \/ WorkerPick
    \/ \E c \in CallIds : Submit(c)
    \/ \E c \in CallIds : WorkerDone(c)
    \/ \E c \in CallIds : JobFinish(c)
    \/ \E c \in CallIds : WrapperReturn(c)

SpecExtra == InitExtra /\ [][NextExtra]_vars

\* s holds the entries of t that match the pattern, and those only, in the
\* order of t
RECURSIVE IsFiltered(_, _)
IsFiltered(s, t) ==
    IF t = <<>> THEN s = <<>>
    ELSE IF PatternMatch(Head(t))
         THEN s # <<>> /\ Head(s) = Head(t) /\ IsFiltered(Tail(s), Tail(t))
         ELSE IsFiltered(s, Tail(t))

\* C22: the sanitizer returns exactly the entries of its input that match
\* the allow-list pattern, in their original order; it never raises and
\* never blocks the call; no rejected entry ("; rm -rf /") appears in the
\* argument list passed to the subprocess or in the result's params.extra,
\* while "--beta=30.5" is accepted and passed through.
C22_SanitizerFilters ==
    \A c \in DOMAIN calls :
        LET x == calls[c].kw.extra
            seen(q) == \E i \in DOMAIN q : q[i] = RmEntry
            beta(q) == Cardinality({i \in DOMAIN q : q[i] = BetaFlag})
        IN /\ calls[c].res.etype # "TypeError"
           /\ calls[c].invoked =>
                 /\ IsFiltered(calls[c].job.argv, x)
                 /\ ~seen(calls[c].job.argv)
                 /\ beta(calls[c].job.argv) = beta(x)
           /\ calls[c].pc = "done" =>
                 /\ calls[c].res.kind = "ok"
                 /\ IsFiltered(calls[c].res.extra, x)
                 /\ ~seen(calls[c].res.extra)
                 /\ beta(calls[c].res.extra) = beta(x)

\* a call passed the injection attempt between two accepted flags and
\* returned with the two flags, in their order, as params.extra
C22_Witness ==
    \E c \in DOMAIN calls :
        /\ calls[c].pc = "done"
        /\ calls[c].kw.extra = <<BetaFlag, RmEntry, <<"-", "-", "a">>>>
        /\ calls[c].job.argv = <<BetaFlag, <<"-", "-", "a">>>>
        /\ calls[c].res.extra = <<BetaFlag, <<"-", "-", "a">>>>

\* the flags the claim describes: "--", a name that starts with a lowercase
\* letter and goes on with letters, digits or hyphens, then optionally "="
\* and a non-empty value of alphanumerics, ".", "-" and "+"
StrictFlag(s) ==
    LET lower == Letters \ {"A"}
        alnum == Letters \cup Digits
    IN \E n \in 3..Len(s) :
          /\ s[1] = "-" /\ s[2] = "-"
          /\ s[3] \in lower
          /\ \A i \in 4..n : s[i] \in alnum \cup {"-"}
          /\ \/ n = Len(s)
             \/ /\ n + 1 < Len(s)
                /\ s[n + 1] = "="
                /\ \A i \in (n + 2)..Len(s) : s[i] \in alnum \cup {".", "-", "+"}

\* C23: an extra flag is accepted by the sanitizer if and only if it has
\* the form the claim describes (StrictFlag); every other string, such as
\* an uppercase-led name, a value with an underscore or whitespace, or a
\* flag followed by a newline, is rejected.
C23_AcceptedIffStrict ==
    \A c \in DOMAIN calls :
        calls[c].invoked =>
            \A i \in DOMAIN calls[c].kw.extra :
                LET e == calls[c].kw.extra[i] IN
                (\E j \in DOMAIN calls[c].job.argv : calls[c].job.argv[j] = e) <=> StrictFlag(e)

\* the part of C23 that holds: every flag of the described form is accepted
C23_StrictAccepted ==
    \A c \in DOMAIN calls :
        calls[c].invoked =>
            \A i \in DOMAIN calls[c].kw.extra :
                LET e == calls[c].kw.extra[i] IN
                StrictFlag(e) => \E j \in DOMAIN calls[c].job.argv : calls[c].job.argv[j] = e

\* C24: every error record of a sweep identifies the index of its
\* originating request: what the record carries singles out one position of
\* the input list, also when the same config occurs several times.
C24_ErrorIdentifiesIndex ==
    sweep.pc = "done" =>
        \A k \in DOMAIN sweep.payload.errors :
            Cardinality({ i \in DOMAIN sweep.configs :
                            sweep.configs[i] = sweep.payload.errors[k].config }) = 1

\* what the record does carry: the config of the request that failed, the
\* records following the input order
C24_ErrorCarriesConfig ==
    sweep.pc = "done" =>
        \A i \in SweepErrIdx : SweepErrorOf(i).config = sweep.configs[i]

\* C25: the document persisted for an optimization run holds the full
\* trace: one record for every objective evaluation of the run, in
\* evaluation order, also when the run made more than 500 evaluations.
C25_FullTracePersisted ==
    \A r \in Runs :
        bo[r].pc = "done" =>
            /\ Len(bo[r].file) = bo[r].n_calls
            /\ bo[r].file = bo[r].hist

\* C26 (state part): the trace of the returned payload is the most recent
\* min(200, stored length) records of the run, in evaluation order, and the
\* stored trace (the one persisted) and best are those of the run.
C26_PayloadIsRecent ==
    \A r \in Runs :
        bo[r].pc = "done" =>
            LET h == bo[r].hist
                k == Min2(PAYLOAD_TRACE, Len(bo[r].trace))
            IN /\ Len(bo[r].payload.trace) = k
               /\ \A i \in 1..k : bo[r].payload.trace[i] = h[Len(h) - k + i]
               /\ bo[r].file = bo[r].trace
               /\ bo[r].payload.best = bo[r].best

\* C26 (step part): building the payload leaves trace and best as they were.
C26_Step ==
    \A r \in Runs :
        (bo[r].pc # "done" /\ bo'[r].pc = "done") =>
            bo'[r].trace = bo[r].trace /\ bo'[r].best = bo[r].best

\* C26: the trace in the payload plogic_bo_run returns is the most recent
\* min(200, stored length) records, in evaluation order, and truncating it
\* for transport leaves the stored trace and best unchanged.
C26_PayloadTrace == [](C26_PayloadIsRecent) /\ [][C26_Step]_vars

\* a finished run whose stored trace is longer than 200 records and whose
\* payload holds the last 200 of them
C26_Witness ==
    \E r \in Runs :
        /\ bo[r].pc = "done"
        /\ Len(bo[r].trace) > PAYLOAD_TRACE
        /\ Len(bo[r].file) = Len(bo[r].trace)
        /\ Len(bo[r].payload.trace) = PAYLOAD_TRACE
        /\ bo[r].payload.trace[1].n = Len(bo[r].hist) - PAYLOAD_TRACE + 1
        /\ bo[r].payload.trace[PAYLOAD_TRACE].n = Len(bo[r].hist)

\* C27: with experiment tracking enabled, every successful plogic_cascade
\* evaluation, freshly run or served from the cache, is mirrored once to
\* the tracking side channel.
C27_MirroredOnce ==
    \A c \in DOMAIN calls :
        (calls[c].pc = "done" /\ calls[c].res.kind = "ok") => calls[c].mirrored = 1

\* the part of C27 that holds: a freshly run evaluation is mirrored once
C27_FreshMirroredOnce ==
    \A c \in DOMAIN calls :
        (calls[c].pc = "done" /\ calls[c].res.kind = "ok" /\ ~calls[c].hit)
            => calls[c].mirrored = 1

\* C28: plogic_bo_run called with n_calls = 0 fails with a fatal error
\* instead of returning an OptimizationRun, with either strategy: no run
\* that was asked for no evaluation ends with a payload.
C28_ZeroCallsFatal ==
    \A r \in Runs :
        bo[r].pc = "done" => bo[r].n_calls >= 1

\* C29: whatever the size of the worker pool and the number of concurrent
\* model-based runs, every objective call of such a run whose simulator
\* answers in time yields its finite objective: no such evaluation is
\* recorded with an infinite objective.
C29_EvaluationsProgress ==
    \A r \in Runs :
        hasSkopt =>
            \A k \in DOMAIN bo[r].hist :
                SimOkWithin(bo[r].hist[k].params, CASCADE_TIMEOUT)
                    => ~bo[r].hist[k].objective.inf

\* what happens instead: the evaluations of a model-based run that miss
\* the cache never ask for a worker
C29_NoWorkerAsked ==
    \A c \in DOMAIN calls : calls[c].owner # "bo"

\* C30: two plogic_cascade calls with identical parameters that overlap in
\* time (the later one made before the earlier one completed) invoke the
\* Process Runner at most once between them.
C30_SingleFlight ==
    \A c1, c2 \in DOMAIN calls :
        (/\ c1 < c2
         /\ calls[c1].kw = calls[c2].kw
         /\ c1 \notin calls[c2].after)
            => ~(calls[c1].invoked /\ calls[c2].invoked)

\* C31: a cache hit never returns a result computed for other simulator
\* arguments: the params of the result a hit returns (the parameter values
\* and the sanitized extra) are the effective parameters of the call that
\* was served, defaults applied, also when the call omits a defaulted
\* parameter, passes None for it or passes its parameters positionally.
C31_HitMatchesParams ==
    \A c \in DOMAIN calls :
        calls[c].hit =>
            /\ PointParams(calls[c].res.pt) = BoundParams(PyCall(calls[c].kw))
            /\ calls[c].res.extra = ValidateExtra(calls[c].kw.extra)

\* the part of C31 that holds: a call that passes every parameter by
\* keyword is only ever served a result computed for its own parameters
C31_AllKeywordsMatch ==
    \A c \in DOMAIN calls :
        (calls[c].hit /\ calls[c].kw.form \in {"kw", "kwrev"}) =>
            PointParams(calls[c].res.pt) = BoundParams(PyCall(calls[c].kw))

(***************************************************************************)
(* SpecLRU: get and setex operations on one _LRUTTL, as physics_cache      *)
(* makes them (every setex with the decorator's expire_seconds), in any    *)
(* order and at any time.  Keys are numbered; the capacity is MaxItems + 1 *)
(* and there are two keys more than that.  Here calls is the log of the    *)
(* operations: what was asked, when, and what get returned.  The value of  *)
(* a setex is a result of its own (run_id: the operation's number).        *)
(***************************************************************************)
LruKeys == 1..(MaxItems + 2)

InitLRU ==
    /\ InitCommon
    /\ workers = 1
    /\ maxItems = MaxItems + 1
    /\ hasSkopt = FALSE
    /\ batch = 1
    /\ sim = [p \in Points |-> {}]

get(key) ==
    /\ Len(calls) < MaxOps
    /\ LET g == LRU_get(lru, key, now) IN
        /\ lru' = g.store
        /\ calls' = Append(calls, [op |-> "get", key |-> key, t |-> now,
                                   hit |-> g.hit, data |-> g.data])
    /\ UNCHANGED <<now, workers, maxItems, sim, queue, running, nextId, sweep, evicted, redis,
                   hasSkopt, batch, bo>>

setex(key) ==
    /\ Len(calls) < MaxOps
    /\ LET value == [NoResult EXCEPT !.kind = "ok", !.run_id = Len(calls) + 1] IN
        /\ lru' = LRU_setex(lru, key, CACHE_TTL, value, now, maxItems)
        /\ calls' = Append(calls, [op |-> "setex", key |-> key, t |-> now,
                                   hit |-> FALSE, data |-> value])
    /\ UNCHANGED <<now, workers, maxItems, sim, queue, running, nextId, sweep, evicted, redis,
                   hasSkopt, batch, bo>>

\* time.time() moves on between two operations
LruTick(d) ==
    /\ TicksUsed(now) < MaxTicks
    /\ now' = now + d
    /\ UNCHANGED <<workers, maxItems, sim, lru, calls, queue, running, nextId, sweep, evicted,
                   redis, hasSkopt, batch, bo>>

NextLRU ==
    \/ \E k \in LruKeys : get(k)
    \/ \E k \in LruKeys : setex(k)
    \/ \E d \in TickSteps : LruTick(d)

SpecLRU == InitLRU /\ [][NextLRU]_vars

\* the number of the last operation that used key k: a setex of k or a get
\* of k that returned its value (0 if there is none)
LastUse(k) ==
    LET uses == { i \in DOMAIN calls :
                    calls[i].key = k /\ (calls[i].op = "setex" \/ calls[i].hit) }
    IN IF uses = {} THEN 0 ELSE CHOOSE i \in uses : \A j \in uses : j <= i

C32_WithinCapacity ==
    /\ Len(lru) <= maxItems
    /\ Cardinality(Keys(lru)) = Len(lru)

\* a setex of a key that does not fit drops exactly the key whose last use
\* is the oldest among the keys held, and no other operation drops a key
\* that is not expired
C32_Step ==
    LET n == Len(calls) + 1 IN
    (Len(calls') = n) =>
        LET k == calls'[n].key
            all == Keys(lru) \cup {k}
        IN IF calls'[n].op = "get"
           THEN Keys(lru) \ {k} \subseteq Keys(lru') /\ Keys(lru') \subseteq Keys(lru)
           ELSE IF Cardinality(all) <= maxItems
                THEN Keys(lru') = all
                ELSE \E v \in Keys(lru) \ {k} :
                        /\ Keys(lru') = all \ {v}
                        /\ \A u \in Keys(lru) \ {k, v} : LastUse(v) < LastUse(u)

\* C32: the in-process cache never holds more than its maximum item count;
\* when a put overflows the capacity, the entry evicted is the least
\* recently used one, a successful get and a put of a key both counting as
\* a use of it.
C32_EvictsLeastRecentlyUsed == [](C32_WithinCapacity) /\ [][C32_Step]_vars

\* a full cache out of which the last setex dropped the key that was stored
\* after another key but not used since, while that other key was served
\* by a get in between and is still held
C32_Witness ==
    \E a, b \in LruKeys : \E i, j, g \in DOMAIN calls :
        /\ a # b /\ i < j /\ j < g /\ g < Len(calls)
        /\ calls[i].op = "setex" /\ calls[i].key = a
        /\ calls[j].op = "setex" /\ calls[j].key = b
        /\ calls[g].op = "get" /\ calls[g].key = a /\ calls[g].hit
        /\ \A e \in (j + 1)..(Len(calls) - 1) : calls[e].key # b
        /\ calls[Len(calls)].op = "setex" /\ calls[Len(calls)].key \notin {a, b}
        /\ Len(lru) = maxItems
        /\ a \in Keys(lru) /\ b \notin Keys(lru)
        /\ \A e \in DOMAIN lru : lru[e].exp >= now

\* the entry the cache holds for key k (k is held)
EntryOf(s, k) == s[IndexOf(s, k, 1)]

\* what one operation does to the entries: a get of a key held and past its
\* expiry misses and removes it; a get of a key held and not past its
\* expiry returns the stored value and leaves value and expiry as they
\* were; a setex leaves the key with the new value and the expiry now + ttl,
\* and leaves the number of entries as it was when the key was held; the
\* entries of the other keys keep their value and expiry
C33_Step ==
    LET n == Len(calls) + 1 IN
    (Len(calls') = n) =>
        LET k == calls'[n].key
            held == k \in Keys(lru)
        IN /\ \A u \in Keys(lru') \ {k} : u \in Keys(lru) /\ EntryOf(lru', u) = EntryOf(lru, u)
           /\ calls'[n].op = "get" =>
                 IF ~held THEN ~calls'[n].hit /\ lru' = lru
                 ELSE IF EntryOf(lru, k).exp < now
                      THEN ~calls'[n].hit /\ k \notin Keys(lru')
                      ELSE /\ calls'[n].hit
                           /\ calls'[n].data = EntryOf(lru, k).data
                           /\ k \in Keys(lru')
                           /\ EntryOf(lru', k) = EntryOf(lru, k)
           /\ calls'[n].op = "setex" =>
                 /\ k \in Keys(lru')
                 /\ EntryOf(lru', k).data = calls'[n].data
                 /\ EntryOf(lru', k).exp = now + CACHE_TTL
                 /\ held => Len(lru') = Len(lru)

\* C33: expiry in the in-process cache is absolute: it is fixed at put time
\* (now + ttl) and a get never extends it; a get after the expiry has
\* passed misses and removes the entry, a get before it returns the stored
\* value, and a later put of the same key replaces value and expiry without
\* changing the number of entries.
C33_AbsoluteExpiry == [][C33_Step]_vars

\* a key stored once was served by a get later on and then missed in a get
\* made after its expiry but less than the TTL after the get that served
\* it; that get removed it
C33_Witness ==
    \E i, g, h \in DOMAIN calls :
        /\ i < g /\ g < h
        /\ calls[i].op = "setex"
        /\ calls[g].op = "get" /\ calls[g].key = calls[i].key /\ calls[g].hit
        /\ calls[g].t > calls[i].t
        /\ calls[h].op = "get" /\ calls[h].key = calls[i].key /\ ~calls[h].hit
        /\ calls[h].t > calls[i].t + CACHE_TTL
        /\ calls[h].t < calls[g].t + CACHE_TTL
        /\ \A e \in DOMAIN calls : (calls[e].op = "setex" /\ calls[e].key = calls[i].key) => e = i
        /\ calls[i].key \notin Keys(lru)

\* the call was handed to the Process Runner: it went on to the evaluation
\* and its _run_cli is given to the worker pool before any time passes
\* (pc "started"), is queued or runs for it, has run, or the call timed
\* out waiting for a worker
HandedToRunner(c) ==
    calls[c].pc \in {"started", "waiting"} \/ calls[c].invoked \/ calls[c].timedOut

\* the calls made after call a had failed, with a's parameters, that
\* plogic_cascade accepts
RetriesOf(a) ==
    { c \in DOMAIN calls :
        /\ a \in calls[c].after
        /\ calls[a].res.kind = "error"
        /\ calls[c].kw = calls[a].kw
        /\ BindsSignature(calls[c].kw) }

\* the contents of the cache: the entries a lookup made now would serve
\* (an entry past its expiry is dropped by the next lookup of its key,
\* whatever call makes it, and is not counted)
Live(s) == { s[i] : i \in { j \in DOMAIN s : ~(s[j].exp < now) } }

\* C34, first part: the cache is populated only by evaluations that
\* completed successfully: every entry is the result a fresh evaluation
\* returned, and a call that failed has made no setex.
C34_OnlySuccessStored ==
    /\ \A i \in DOMAIN lru : \E b \in DOMAIN calls :
          /\ calls[b].res = lru[i].data
          /\ calls[b].res.kind = "ok"
          /\ ~calls[b].hit /\ ~calls[b].timedOut /\ calls[b].errs = 0
    /\ \A a \in DOMAIN calls :
          (calls[a].res.kind = "error" \/ calls[a].timedOut) => calls[a].ord = 0

\* C34, second part: the cache contents are unchanged by a call that
\* fails: the contents change only in the step in which a call returns
\* the successful result it has just stored, so in no step of a call that
\* ends in a non-zero exit, a timeout or an exception.
C34_ContentsKept ==
    Live(lru') # Live(lru) =>
        \E c \in DOMAIN calls :
            /\ calls[c].pc = "built" /\ calls'[c].pc = "done"
            /\ calls'[c].res.kind = "ok" /\ calls'[c].ord > 0

\* C34, third part: after a plogic_cascade call has failed, the next call
\* with the same parameters invokes the Process Runner again.
C34_RetryRuns ==
    \A a \in DOMAIN calls : \A c \in RetriesOf(a) :
        (\A b \in RetriesOf(a) : c <= b) => (~calls[c].hit /\ HandedToRunner(c))

\* C34 as stated: the cache is populated only by evaluations that
\* completed successfully; after a plogic_cascade call fails (non-zero
\* exit, timeout or any exception) the cache contents are unchanged by
\* that call, and the next call with the same parameters invokes the
\* Process Runner again.
C34_Original ==
    [](C34_OnlySuccessStored /\ C34_RetryRuns) /\ [][C34_ContentsKept]_vars

\* C34, what holds of it: the first two parts, and a call made after a
\* call with the same parameters failed is handed to the Process Runner
\* again unless a successful evaluation of these parameters completed
\* within the TTL before it.
C34_FailureNotCached ==
    /\ [](C34_OnlySuccessStored)
    /\ [][C34_ContentsKept]_vars
    /\ [](\A a \in DOMAIN calls : \A c \in RetriesOf(a) :
            (\A b \in FreshBefore(c) : calls[b].tdone + CACHE_TTL < calls[c].t0)
                => (~calls[c].hit /\ HandedToRunner(c)))

\* the evaluations of a fallback run that have appended their record: those
\* of the batches that ended and those of the current batch that are past
\* their wait
Evaluated(r) ==
    (bo[r].n_calls - bo[r].remain)
        + Cardinality({ i \in DOMAIN bo[r].slots : bo[r].slots[i].pc # "wait" })

C35_Batches ==
    \A r \in Runs :
        (~hasSkopt /\ bo[r].pc \in {"batching", "done"} /\ bo[r].n_calls >= 1) =>
            /\ Len(bo[r].slots) <= batch
            /\ bo[r].slots # <<>> =>
                  Len(bo[r].slots) = IF bo[r].remain < batch THEN bo[r].remain ELSE batch
            /\ bo[r].remain >= 0
            /\ bo[r].remain > 0 => (bo[r].n_calls - bo[r].remain) % batch = 0
            /\ Len(bo[r].hist) = Evaluated(r)
            /\ bo[r].pc = "done" => Len(bo[r].hist) = bo[r].n_calls

\* evaluations start only when every evaluation started before has appended
\* its record and ended, and a step appends at most one record
C35_Step ==
    \A r \in Runs :
        ~hasSkopt =>
            /\ (bo'[r].slots # <<>> /\ bo[r].slots = <<>>) =>
                   /\ Len(bo[r].hist) = bo[r].n_calls - bo[r].remain
                   /\ \A i \in DOMAIN bo'[r].slots : bo'[r].slots[i].pc = "wait"
            /\ (bo[r].slots # <<>> /\ bo'[r].slots # <<>>) =>
                   DOMAIN bo'[r].slots = DOMAIN bo[r].slots
            /\ (bo[r].slots # <<>> /\ bo'[r].slots = <<>>) =>
                   \A i \in DOMAIN bo[r].slots : bo[r].slots[i].pc = "done"
            /\ Len(bo'[r].hist) <= Len(bo[r].hist) + 1
            /\ SubSeq(bo'[r].hist, 1, Len(bo[r].hist)) = bo[r].hist \/ bo[r].pc = "idle"

\* C35: in fallback random search plogic_bo_run performs exactly n_calls
\* objective evaluations for every n_calls >= 1, in successive batches of
\* at most min(8, cpu count) points; every evaluation of a batch has
\* finished, as a success or as a failure record, before any evaluation of
\* the next batch starts, and each evaluation appends exactly one record.
C35_FallbackBatches == [](C35_Batches) /\ [][C35_Step]_vars

\* a fallback run of more evaluations than one batch holds has ended, its
\* last batch smaller than the first, with a success and a failure among
\* its records
C35_Witness ==
    \E r \in Runs :
        /\ ~hasSkopt /\ bo[r].pc = "done"
        /\ bo[r].n_calls > batch /\ bo[r].n_calls % batch # 0
        /\ Len(bo[r].hist) = bo[r].n_calls
        /\ \E i, j \in DOMAIN bo[r].hist :
              /\ bo[r].hist[i].objective # FInf
              /\ bo[r].hist[j].objective = FInf

(***************************************************************************)
(* plogic_characterize, plogic_truth_table and plogic_health hand one      *)
(* _run_cli to the worker pool under a deadline of their own and do not    *)
(* use the cache.  A call of theirs is a record of calls whose owner is    *)
(* the tool; ToolArgs(tool) stands for its argument vector (--help,        *)
(* truth-table with its options, or characterize).  The result of a health *)
(* call                                                                    *)
(* has kind "healthy" or "unhealthy" (msg: the text of the exception it    *)
(* caught, if any); that of the other two "ok" (run_id: the identifier     *)
(* made for it or, for characterize, the run_id the simulator printed; 0   *)
(* when there is none; raw: the stdout of characterize was not JSON), or   *)
(* "error" with the exception raised.                                      *)
(***************************************************************************)
\* what a simulator prints under "run_id" in the object of its stdout
PrintedRunId == 0 - 1

ToolArgs(tool) ==
    NPoints + (CASE tool = "health" -> 2 [] tool = "truth_table" -> 3 [] OTHER -> 4)

\* a health check that waits as long as an evaluation does
ToolDeadline_Cascade(c) == c.t0 + CASCADE_TIMEOUT

\* lines 215, 237 and 445: the timeout of the tool's wait_for runs from
\* the call
ToolDeadline(c) ==
    c.t0 + (CASE c.owner = "health" -> HEALTH_TIMEOUT
              [] c.owner = "characterize" -> CHAR_TIMEOUT
              [] OTHER -> TRUTH_TIMEOUT)

\* the tool is called: it runs up to wait_for(_impl()), which makes the
\* task of _impl and suspends
ToolCall(tool) ==
    /\ CallsMade < NCalls
    /\ ~LoopHeld
    /\ calls' = Append(calls, NewCall(PlainCall(ToolArgs(tool)), tool, now,
                                      {i \in DOMAIN calls : calls[i].pc = "done"}, FALSE))
    /\ UNCHANGED <<now, workers, maxItems, sim, lru, queue, running, nextId, sweep, evicted,
                   redis, hasSkopt, batch, bo>>

\* the message of the tool's RuntimeError for a non-zero exit (lines 212
\* and 231)
ToolFailMsg(tool, stderr) ==
    IF Strip(stderr) # "" THEN Strip(stderr)
    ELSE IF tool = "characterize" THEN "plogic characterize failed"
         ELSE "plogic truth-table failed"

\* the tool's _impl resumes with what _run_cli returned or raised and runs
\* to its end: plogic_characterize parses stdout (lines 212-213),
\* plogic_truth_table reads the csv file, which raises when the file is
\* not there (lines 231-236), plogic_health keeps the exit code (line 443)
ToolFinish(c) ==
    /\ c \in DOMAIN calls
    /\ calls[c].owner \in Tools
    /\ calls[c].pc = "exited"
    /\ ~LoopHeld
    /\ LET o == calls[c].job.outcome
           tool == calls[c].owner
           res == IF o.kind = "raise"
                  THEN ErrResult(ToolArgs(tool), "FileNotFoundError", NoSuchFileMsg)
                  ELSE IF tool = "health"
                       THEN [NoResult EXCEPT !.kind = IF o.kind = "ok" THEN "healthy"
                                                      ELSE "unhealthy"]
                  ELSE IF o.kind # "ok"
                       THEN ErrResult(ToolArgs(tool), "RuntimeError", ToolFailMsg(tool, o.stderr))
                  ELSE IF tool = "truth_table" /\ ~o.csv
                       THEN ErrResult(ToolArgs(tool), "FileNotFoundError", NoSuchFileMsg)
                  ELSE [NoResult EXCEPT !.kind = "ok",
                                        !.raw = tool = "characterize" /\ ParseJsonOrRaw(o).raw]
       IN calls' = [calls EXCEPT ![c] = Built(@, res)]
    /\ UNCHANGED <<now, workers, maxItems, sim, lru, queue, running, nextId, sweep, evicted,
                   redis, hasSkopt, batch, bo>>

\* wait_for hands on what _impl returned or raised and the tool resumes:
\* plogic_health answers with a status, also for an exception (lines
\* 446-448); plogic_truth_table returns the rows under a new run_id (line
\* 238); plogic_characterize returns what was parsed; when that is a dict
\* a run_id is made (uuid4 is called) and setdefault puts it there unless
\* the simulator printed one, which stays (lines 216-219)
ToolReturn(c) ==
    /\ c \in DOMAIN calls
    /\ calls[c].owner \in Tools
    /\ calls[c].pc = "built"
    /\ ~LoopHeld
    /\ LET res == calls[c].res
           tool == calls[c].owner
           parsed == ParseJsonOrRaw(calls[c].job.outcome)
           makesId == /\ res.kind = "ok"
                      /\ tool = "characterize" => parsed.dict
           printed == tool = "characterize" /\ "run_id" \in DOMAIN parsed.members
       IN /\ calls' = [calls EXCEPT ![c] =
                          Finished(@, IF tool = "health" /\ res.kind = "error"
                                      THEN [NoResult EXCEPT !.kind = "unhealthy", !.msg = res.msg]
                                      ELSE IF makesId
                                           THEN [res EXCEPT !.run_id =
                                                    IF printed THEN parsed.members.run_id
                                                    ELSE nextId]
                                      ELSE res, now)]
          /\ nextId' = IF tool # "health" /\ makesId THEN nextId + 1 ELSE nextId
    /\ UNCHANGED <<now, workers, maxItems, sim, lru, queue, running, sweep, evicted, redis,
                   hasSkopt, batch, bo>>

\* the deadline has passed and the tool's wait_for resumes before _impl
\* has returned: it cancels the task of _impl.  The work item is where it
\* was (CancelItem passes the cancellation on).
ToolTimeout(c) ==
    /\ c \in DOMAIN calls
    /\ calls[c].owner \in Tools
    /\ calls[c].pc \in {"started", "waiting", "exited"}
    /\ now >= ToolDeadline(calls[c])
    /\ ~LoopHeld
    /\ calls' = [calls EXCEPT ![c].pc = "cancelling", ![c].timedOut = TRUE]
    /\ UNCHANGED <<now, workers, maxItems, sim, lru, queue, running, nextId, sweep, evicted,
                   redis, hasSkopt, batch, bo>>

(***************************************************************************)
(* SpecTools: plogic_health, plogic_truth_table and plogic_characterize    *)
(* calls next to plogic_cascade calls over one worker pool.  A simulator   *)
(* run for a cascade call exits zero after 30 s or never exits.  --help    *)
(* exits zero after 3 s (within the health deadline) or after 30 s, exits  *)
(* non-zero, or cannot be started (subprocess.run raises at once); a       *)
(* truth-table run exits zero after 3 s, with or without the csv file      *)
(* written, or non-zero with nothing on stderr; characterize exits zero,   *)
(* after 3 s printing an object with a run_id of its own, after 5 s (when  *)
(* a health check made with it gives up) printing JSON that is no object,  *)
(* or after 30 s (its deadline) printing an object without run_id.  The    *)
(* clock                                                                   *)
(* moves from one due time (a deadline, a subprocess exit) to the next,    *)
(* once no coroutine is ready to run.                                      *)
(***************************************************************************)
ToolOutcomes(p) ==
    CASE p = ToolArgs("health") ->
            { [OutcomeA EXCEPT !.dur = 3], OutcomeA,
              [NoOutcome EXCEPT !.kind = "fail", !.dur = 3, !.stderr = "boom"],
              [NoOutcome EXCEPT !.kind = "raise", !.dur = 0] }
      [] p = ToolArgs("truth_table") ->
            { [OutcomeA EXCEPT !.dur = 3], [OutcomeA EXCEPT !.dur = 3, !.csv = FALSE],
              [NoOutcome EXCEPT !.kind = "fail", !.dur = 3] }
      [] p = ToolArgs("characterize") ->
            { OutcomeA,
              [OutcomeA EXCEPT !.dur = 3, !.out = [run_id |-> PrintedRunId]],
              [OutcomeA EXCEPT !.dur = HEALTH_TIMEOUT, !.out = NoMetrics,
                               !.so.syntax = "value"] }
      [] OTHER -> { OutcomeA, [NoOutcome EXCEPT !.kind = "hang"] }

InitTools ==
    /\ InitCommon
    /\ maxItems = CACHE_MAX_ITEMS
    /\ hasSkopt = TRUE
    /\ batch = 1
    /\ sim = [p \in Points \cup {ToolArgs(t) : t \in Tools} |-> ToolOutcomes(p)]

(***************************************************************************)
(* SpecPool: any mix of plogic_cascade, plogic_sweep_parallel,             *)
(* plogic_characterize, plogic_truth_table, plogic_health and model-based  *)
(* plogic_bo_run calls over one worker pool: cascade calls and sweeps of   *)
(* one configuration for the same parameter vector (the later ones are     *)
(* cache hits once a result is stored) and one optimization run of one     *)
(* evaluation.  A simulator run for a cascade call exits zero after 30 s   *)
(* or never exits; --help and a truth-table run exit zero after 3 s,       *)
(* characterize after 30 s.                                                *)
(***************************************************************************)
InitPool ==
    /\ InitCommon
    /\ maxItems = CACHE_MAX_ITEMS
    /\ hasSkopt = TRUE
    /\ batch = 1
    /\ sim = [p \in Points \cup {ToolArgs(t) : t \in Tools} |->
                 CASE p \in {ToolArgs("health"), ToolArgs("truth_table")} ->
                         { [OutcomeA EXCEPT !.dur = 3] }
                   [] p = ToolArgs("characterize") -> { OutcomeA }
                   [] OTHER -> { OutcomeA, [NoOutcome EXCEPT !.kind = "hang"] }]

PoolTick ==
    LET due == { IF calls[c].owner \in Tools
                 THEN ToolDeadline(calls[c]) ELSE Deadline(calls[c]) :
                    c \in { d \in DOMAIN calls : calls[d].pc = "waiting" } }
               \cup { calls[c].job.start + calls[c].job.outcome.dur :
                    c \in { d \in DOMAIN calls :
                              CliItem(d) \in running /\ calls[d].job.outcome.kind # "hang" } }
    IN /\ queue = <<>> \/ ~WorkerFree
       /\ \A c \in DOMAIN calls :
             calls[c].pc \notin {"started", "exited", "built", "cancelling"}
       /\ sweep.pc # "starting"
       /\ \A r \in Runs : bo[r].slots = <<>>
       /\ due # {}
       /\ \A t \in due : t > now
       /\ now' = CHOOSE t \in due : \A u \in due : t <= u
       /\ UNCHANGED <<workers, maxItems, sim, lru, calls, queue, running, nextId, sweep,
                      evicted, redis, hasSkopt, batch, bo>>

NextPool ==
    \/ Call(PlainCall(RingPoint))
    \/ SweepStart(<<PlainCall(RingPoint)>>)
    \/ SweepEnter
    \/ \E tool \in Tools : ToolCall(tool)
    \/ BoStart(1, 1, RingWeight)
    \/ \E c \in CallIds : Submit(c)
    \/ WorkerPick
    \/ DriverPick
    \/ \E c \in CallIds : WorkerDone(c)
    \/ \E c \in CallIds : JobFinish(c)
    \/ \E c \in CallIds : WrapperReturn(c)
    \/ \E c \in CallIds : CascadeTimeout(c)
    \/ \E c \in CallIds : CancelItem(c)
    \/ \E c \in CallIds : ToolFinish(c)
    \/ \E c \in CallIds : ToolReturn(c)
    \/ \E c \in CallIds : ToolTimeout(c)
    \/ \E c \in CallIds : TimeoutRaise(c)
    \/ BoAsk(1, RingPoint)
    \/ EvalStep(1, 1)
    \/ SetState(1, 1)
    \/ SlotGet(1, 1)
    \/ SlotTrim(1, 1)
    \/ SlotUpdate(1, 1)
    \/ DriverReturn(1)
    \/ BoFinish(1)
    \/ SweepFinish
    \/ PoolTick

SpecPool == InitPool /\ [][NextPool]_vars

NextTools ==
    \/ Call(PlainCall(RingPoint))
    \/ \E tool \in Tools : ToolCall(tool)
    \/ \E c \in CallIds : Submit(c)
    \/ WorkerPick
    \/ \E c \in CallIds : WorkerDone(c)
    \/ \E c \in CallIds : JobFinish(c)
    \/ \E c \in CallIds : WrapperReturn(c)
    \/ \E c \in CallIds : CascadeTimeout(c)
    \/ \E c \in CallIds : CancelItem(c)
    \/ \E c \in CallIds : ToolFinish(c)
    \/ \E c \in CallIds : ToolReturn(c)
    \/ \E c \in CallIds : ToolTimeout(c)
    \/ \E c \in CallIds : TimeoutRaise(c)
    \/ PoolTick

SpecTools == InitTools /\ [][NextTools]_vars

\* C36: plogic_health never raises and always answers within its 5 s
\* deadline: it returns status healthy exactly when the --help invocation
\* exits with code 0 before the deadline, and unhealthy on a non-zero exit,
\* a timeout or any exception, including when every worker of the pool is
\* occupied.
C36_HealthAnswers ==
    \A c \in DOMAIN calls :
        calls[c].owner = "health" =>
            LET exit == calls[c].job.start + calls[c].job.outcome.dur
                zero == calls[c].invoked /\ calls[c].job.outcome.kind = "ok"
            IN /\ calls[c].pc # "done" => now <= calls[c].t0 + HEALTH_TIMEOUT
               /\ calls[c].pc = "done" =>
                     /\ calls[c].tdone <= calls[c].t0 + HEALTH_TIMEOUT
                     /\ calls[c].res.kind \in {"healthy", "unhealthy"}
                     /\ calls[c].res.kind = "healthy" =>
                           zero /\ exit <= calls[c].t0 + HEALTH_TIMEOUT
                     /\ (zero /\ exit < calls[c].t0 + HEALTH_TIMEOUT) =>
                           calls[c].res.kind = "healthy"

\* a health check answered unhealthy at its deadline without its --help
\* ever started, every worker being held by a simulator that does not
\* exit, after an earlier health check was answered healthy
C36_Witness ==
    \E c \in DOMAIN calls :
        /\ calls[c].owner = "health" /\ calls[c].pc = "done"
        /\ calls[c].timedOut /\ ~calls[c].invoked
        /\ calls[c].res.kind = "unhealthy"
        /\ calls[c].tdone = calls[c].t0 + HEALTH_TIMEOUT
        /\ Cardinality(running) = workers
        /\ \A d \in DOMAIN calls : CliItem(d) \in running => calls[d].job.outcome.kind = "hang"
        /\ \E d \in DOMAIN calls :
              /\ calls[d].owner = "health" /\ calls[d].res.kind = "healthy"
              /\ calls[d].tdone <= calls[c].t0

\* C37: at every moment the simulator subprocesses that run plus the
\* driver loops of model-based optimizations that run number at most the
\* worker-pool size, whatever the mix of cascade, sweep, truth-table,
\* health and optimization calls; a request beyond that waits in the pool's
\* queue: a call that waits for its simulator run, or an optimization whose
\* driver loop has not returned, has its work item in the queue or on a
\* worker, and an item gets a worker only from the head of the queue while
\* a worker is free.
C37_Bounded ==
    /\ Cardinality(running) <= workers
    /\ \A i \in DOMAIN queue : queue[i] \notin running
    /\ \A c \in DOMAIN calls :
          (calls[c].pc = "waiting" /\ ~calls[c].hit) =>
              \/ CliItem(c) \in running
              \/ \E i \in DOMAIN queue : queue[i] = CliItem(c)
    /\ \A r \in Runs :
          /\ bo[r].pc = "queued" => \E i \in DOMAIN queue : queue[i] = DriverItem(r)
          /\ bo[r].pc = "driving" => DriverItem(r) \in running

C37_Step ==
    \A it \in running' \ running :
        /\ queue # <<>> /\ it = Head(queue)
        /\ queue' = Tail(queue)
        /\ Cardinality(running) < workers

C37_PoolBound == [](C37_Bounded) /\ [][C37_Step]_vars

\* both workers are taken, one by the driver loop of an optimization and
\* one by the simulator subprocess of a cascade call, while a health check
\* and a truth-table call wait in the queue
C37_Witness ==
    /\ workers = MaxWorkers
    /\ Cardinality(running) = workers
    /\ \E it \in running : it.what = "driver"
    /\ \E it \in running : it.what = "cli" /\ calls[it.id].owner = "direct"
    /\ \E i, j \in DOMAIN queue :
          /\ calls[queue[i].id].owner = "health"
          /\ calls[queue[j].id].owner = "truth_table"

====
